---- MODULE Spec2Model ----
(***************************************************************************)
(* ODharmonizer / ODconverter: the two conversions of omics data into the  *)
(* OMOP measurement and fact_relationship tables.                          *)
(*                                                                         *)
(*   expression2measurement.py  -> generate_gex_measurement_dataframe      *)
(*   vcf2measurement.py         -> convert_vcf_to_row_col_format           *)
(*                              -> generate_genomic_measurement_dataframe  *)
(*                                                                         *)
(* and, around them,                                                       *)
(*                                                                         *)
(*   exp-annotator.py           -> OMOP_Annotator.map_gene_concept_ids     *)
(*   ga4gh/omop.py              -> OMOPAnnotator.annotate, fetch_concept   *)
(*   insert_table.py and the two conversion scripts                        *)
(*                              -> get_person_id, insert_table, close      *)
(*   the parameters that override a column of the person file              *)
(*                              -> main of the conversion scripts          *)
(*   create-specimen.py         -> generate_specimen_dataframe             *)
(*                                                                         *)
(* Data representation.                                                    *)
(*   - A nullable value (None / NaN of pandas) is Null == <<>> or          *)
(*     Some(v) == <<v>>; notna() is ~IsNull.                               *)
(*   - A dataframe is a sequence of records, in row order.                 *)
(*   - A Python string that the code splits or joins is a sequence of      *)
(*     atoms (a "0/1" genotype is <<"0","/","1">>); split and join work    *)
(*     on the atoms as str.split and str.join work on the characters.      *)
(*   - Floating point is modelled exactly: a z-score is the real number    *)
(*     sgn * sqrt(num / den) kept as the record [sgn, num, den].           *)
(***************************************************************************)
EXTENDS Integers, Sequences, FiniteSets, TLC

VARIABLES
    pc,                 \* position of the running script
    err,                \* exception that ended the run ("" when none)
    expr_df,            \* expression input: rows [gene, concept_id, vals]
    samples,            \* sample columns (person_source_value), in file order
    person_map,         \* person_source_value -> [person_id]
    specimen_df,        \* specimen file: rows [person_id, specimen_id]
    start_index,        \* --start (Null when the argument is omitted)
    gene_map,           \* identifier -> concept id (gene_map / id_map)
    zscores,            \* z-score matrix: rows [gene, vals]
    vcf,                \* VCF data records
    genomic_df,         \* output of convert_vcf_to_row_col_format
    id_map,             \* vcf2measurement: row ID -> OMOP_Concept_ID
    long_df,            \* the long table being built
    measurement_df,     \* returned measurement table
    fact_relationship   \* returned fact_relationship table

\* the annotators (exp-annotator.py, ga4gh/omop.py)
VARIABLES
    gene_list,          \* map_gene_concept_ids: the submitted keys, in order
    ann_records,        \* annotate: VRS_Allele_IDs of each input record
    api,                \* mapping API: key -> the response it gives
    vcf_out,            \* annotate: TRUE when output_vcf_path is given
    futures,            \* submitted tasks: index -> [state, result]
    completed,          \* task indexes in the order as_completed yielded them
    results,            \* annotate: results dict, index -> task result
    written,            \* annotate: records written to the output, in order
    write_idx,          \* annotate: idx of the loop that writes the output
    run,                \* number of the current annotation run
    first_map           \* gene_map returned by the previous run

\* one lookup through the retrying session (ga4gh/omop.py)
VARIABLES
    vrs_id,             \* the key of the lookup
    calls,              \* outcomes of the HTTP attempts made, in order
    concept             \* what fetch_concept returned (Null before it returns)

\* the scripts around the loader (vcf2measurement.py, insert_table.py, ...)
VARIABLES
    script,             \* which script runs
    dbwrite,            \* --dbwrite
    person_cols,        \* columns of the person file
    person_match,       \* person_source_value found in the person table
    obs_cols,           \* columns of the observation file
    connection,         \* loader.connection: "none", "open", "closed"
    files,              \* output files written
    db,                 \* committed rows of each database table
    session,            \* rows executed in the open transaction (Null: none)
    attempts,           \* insert_table calls made per table
    inserting           \* table of the running insert_table call ("" if none)

\* the fields a command-line parameter can override (expression2measurement.py,
\* vcf2measurement.py, create-specimen.py)
VARIABLES
    args,               \* the parsed parameters: name -> value (Null: not given)
    person_df,          \* the person frame: [columns, rows]
    specimen            \* create-specimen: the specimen table

convVars == <<expr_df, samples, person_map, specimen_df, start_index,
              gene_map, zscores, vcf, genomic_df, id_map, long_df,
              measurement_df, fact_relationship>>

annVars == <<gene_list, ann_records, api, vcf_out, futures, completed, results,
             written, write_idx, run, first_map>>

retryVars == <<vrs_id, calls, concept>>

fieldVars == <<args, person_df, specimen>>

scriptVars == <<script, dbwrite, person_cols, person_match, obs_cols,
                connection, files, db, session, attempts, inserting, fieldVars>>

vars == <<pc, err, convVars, annVars, retryVars, scriptVars>>

(***************************************************************************)
(* Bounds of the explored inputs.                                          *)
(***************************************************************************)
MaxRows == 2        \* identifier rows of an expression matrix (Spec)
MaxSamples == 2     \* sample columns (Spec)
MaxVal == 1         \* expression values are 0..MaxVal (Spec)
ZMaxSamples == 3    \* sample columns (SpecZ)
ZMaxVal == 2        \* expression values are 0..ZMaxVal (SpecZ)
MaxRecords == 2     \* data lines of a VCF file (SpecVcf)
VcfMaxSamples == 2  \* sample columns of a VCF file (SpecVcf)
GtMaxSamples == 2   \* sample columns of a VCF file (SpecGT)
MaxKeys == 3        \* keys submitted to map_gene_concept_ids (SpecAnnot)
MaxAnnRecords == 3  \* records of the VCF given to annotate (SpecAnnot)
MaxInsertRows == 2  \* rows of the measurement table of a script run (SpecScript)
MaxPersons == 2     \* rows of the person file (SpecFields)
PoolKeys == 9       \* keys submitted to map_gene_concept_ids (SpecPool)

(***************************************************************************)
(* Nullable values and small helpers.                                      *)
(***************************************************************************)
Null == <<>>
Some(v) == <<v>>
IsNull(o) == o = Null
Val(o) == o[1]

RECURSIVE Flatten(_)
Flatten(ss) == IF ss = <<>> THEN <<>> ELSE Head(ss) \o Flatten(Tail(ss))

RECURSIVE SeqSum(_)
SeqSum(s) == IF s = <<>> THEN 0 ELSE Head(s) + SeqSum(Tail(s))

Range(s) == {s[i] : i \in DOMAIN s}

MaxOf(S) == CHOOSE m \in S : \A x \in S : x <= m

\* dict.get(k): the value, or None when the key is absent
DictGet(d, k) == IF k \in DOMAIN d THEN d[k] ELSE Null

\* dict(zip(keys, vals)): a later pair overwrites an earlier one
DictZip(keys, vals) ==
    [k \in Range(keys) |-> vals[MaxOf({i \in DOMAIN keys : keys[i] = k})]]

SampleNames == <<"S1", "S2", "S3", "S4", "S5">>
Genes == {"G1", "G2"}
ConceptIdOf(g) == IF g = "G1" THEN 101 ELSE 102
PersonIdOf(j) == 10 + j
SpecimenIdOf(pid) == 40 + pid
PersonStatus == {"unknown", "no_specimen", "has_specimen"}

(***************************************************************************)
(* Program constants.                                                      *)
(***************************************************************************)
high_concept_id == 4084765
low_concept_id == 4083207
ref_concept_id == 4084764
MeasurementDomain == 1147330
SpecimenDomain == 1147306
MeasToSpec == 32668
SpecToMeas == 32669
Ddof == 1

(***************************************************************************)
(* generate_gex_measurement_dataframe, 1: z-scores per gene row.           *)
(* With M values v, S their sum: M*(v[j] - mean) = M*v[j] - S, and         *)
(* std^2 = SumSqDev / (M^2 * (M - ddof)); pandas' std has ddof = 1.        *)
(***************************************************************************)
Dev(v, j) == Len(v) * v[j] - SeqSum(v)

SumSqDev(v) == SeqSum([j \in DOMAIN v |-> Dev(v, j) * Dev(v, j)])

StdDivisorPopulation(M) == M

StdDivisor(M) == M - Ddof

Sign(x) == IF x > 0 THEN 1 ELSE IF x < 0 THEN -1 ELSE 0

\* (v[j] - mean) / std.replace(0, nan): NaN when std is NaN (a single
\* sample) or zero
ZScore(v, j) ==
    IF StdDivisor(Len(v)) <= 0 \/ SumSqDev(v) = 0
    THEN Null
    ELSE Some([sgn |-> Sign(Dev(v, j)),
               num |-> Dev(v, j) * Dev(v, j) * StdDivisor(Len(v)),
               den |-> SumSqDev(v)])

\* z > 1 and z < -1 for z = sgn * sqrt(num / den)
ZGreaterThanOne(z) == z.sgn = 1 /\ z.num > z.den
ZLessThanMinusOne(z) == z.sgn = -1 /\ z.num > z.den

classifyInclusive(z) ==
    IF IsNull(z) THEN Null
    ELSE IF Val(z).sgn = 1 /\ Val(z).num >= Val(z).den
         THEN Some(high_concept_id)
    ELSE IF Val(z).sgn = -1 /\ Val(z).num >= Val(z).den
         THEN Some(low_concept_id)
    ELSE Some(ref_concept_id)

\* without the pd.isna guard both comparisons are false on NaN
classifyNoNaGuard(z) ==
    IF ~IsNull(z) /\ ZGreaterThanOne(Val(z)) THEN Some(high_concept_id)
    ELSE IF ~IsNull(z) /\ ZLessThanMinusOne(Val(z)) THEN Some(low_concept_id)
    ELSE Some(ref_concept_id)

classify(z) ==
    IF IsNull(z) THEN Null
    ELSE IF ZGreaterThanOne(Val(z)) THEN Some(high_concept_id)
    ELSE IF ZLessThanMinusOne(Val(z)) THEN Some(low_concept_id)
    ELSE Some(ref_concept_id)

(***************************************************************************)
(* generate_gex_measurement_dataframe, 2: melt and merge.                  *)
(* DataFrame.melt stacks the value columns one after the other, each in    *)
(* row order.                                                              *)
(***************************************************************************)
MeltIndex(N, k) == [row |-> ((k - 1) % N) + 1, col |-> ((k - 1) \div N) + 1]

long_expr(df, cols) ==
    [k \in 1..(Len(df) * Len(cols)) |->
        LET p == MeltIndex(Len(df), k) IN
        [gene |-> df[p.row].gene,
         person_source_value |-> cols[p.col],
         value_as_number |-> Some(df[p.row].vals[p.col])]]

long_z(zdf, cols) ==
    [k \in 1..(Len(zdf) * Len(cols)) |->
        LET p == MeltIndex(Len(zdf), k) IN
        [gene |-> zdf[p.row].gene,
         person_source_value |-> cols[p.col],
         zscore |-> zdf[p.row].vals[p.col]]]

\* left.merge(right, on=[gene, person_source_value], how='left'): every left
\* row is paired with every right row of the same key, in right order
MergeLeft(left, right) ==
    Flatten([i \in DOMAIN left |->
        LET hit == SelectSeq(right, LAMBDA r :
                       r.gene = left[i].gene
                       /\ r.person_source_value = left[i].person_source_value)
        IN [h \in DOMAIN hit |->
               [gene |-> left[i].gene,
                person_source_value |-> left[i].person_source_value,
                value_as_number |-> left[i].value_as_number,
                zscore |-> hit[h].zscore]]])

\* person_map.get(psv, {}).get('person_id')
PersonIdFor(pmap, psv) ==
    IF psv \in DOMAIN pmap THEN pmap[psv].person_id ELSE Null

\* sections 3 and 4 of the function: classification and mapped columns
GexLongRow(r, gmap, pmap) ==
    [gene |-> r.gene,
     person_source_value |-> r.person_source_value,
     value_as_number |-> r.value_as_number,
     zscore |-> r.zscore,
     value_as_concept_id |-> classify(r.zscore),
     value_source_value |-> Null,
     person_id |-> PersonIdFor(pmap, r.person_source_value),
     measurement_concept_id |-> DictGet(gmap, r.gene),
     measurement_source_value |-> r.gene,
     measurement_id |-> Null,
     specimen_id |-> Null]

(***************************************************************************)
(* Both reshapers: the concept filter, measurement_id, the specimen filter *)
(* and the fact_relationship rows.                                         *)
(***************************************************************************)
FilterConcept(df) == SelectSeq(df, LAMBDA r : ~IsNull(r.measurement_concept_id))

\* range(start_index, start_index + len(long_df)), or None for every row
AssignMeasurementId(df, start) ==
    [i \in DOMAIN df |->
        [df[i] EXCEPT !.measurement_id =
            IF IsNull(start) THEN Null ELSE Some(Val(start) + i - 1)]]

specimen_map(sdf) ==
    DictZip([i \in DOMAIN sdf |-> sdf[i].person_id],
            [i \in DOMAIN sdf |-> Some(sdf[i].specimen_id)])

\* long_df['person_id'].map(specimen_map)
MapSpecimen(df, smap) ==
    [i \in DOMAIN df |->
        [df[i] EXCEPT !.specimen_id =
            IF IsNull(df[i].person_id) THEN Null
            ELSE DictGet(smap, Val(df[i].person_id))]]

FilterSpecimen(df) == SelectSeq(df, LAMBDA r : ~IsNull(r.specimen_id))

fr_measure_to_spec(df) ==
    [i \in DOMAIN df |->
        [domain_concept_id_1 |-> MeasurementDomain,
         fact_id_1 |-> df[i].measurement_id,
         domain_concept_id_2 |-> SpecimenDomain,
         fact_id_2 |-> df[i].specimen_id,
         relationship_concept_id |-> MeasToSpec]]

fr_spec_to_measure(df) ==
    [i \in DOMAIN df |->
        [domain_concept_id_1 |-> SpecimenDomain,
         fact_id_1 |-> df[i].specimen_id,
         domain_concept_id_2 |-> MeasurementDomain,
         fact_id_2 |-> df[i].measurement_id,
         relationship_concept_id |-> SpecToMeas]]

\* long_df[omop_cols]
omop_cols(df) ==
    [i \in DOMAIN df |->
        [measurement_id |-> df[i].measurement_id,
         person_id |-> df[i].person_id,
         measurement_concept_id |-> df[i].measurement_concept_id,
         value_as_number |-> df[i].value_as_number,
         value_as_concept_id |-> df[i].value_as_concept_id,
         measurement_source_value |-> df[i].measurement_source_value,
         value_source_value |-> df[i].value_source_value]]

(***************************************************************************)
(* The parts of the state a run does not use keep their idle values.       *)
(***************************************************************************)
ConvIdle ==
    /\ expr_df = <<>> /\ samples = <<>> /\ person_map = <<>>
    /\ specimen_df = <<>> /\ start_index = Null /\ gene_map = <<>>
    /\ zscores = <<>> /\ vcf = <<>> /\ genomic_df = <<>> /\ id_map = <<>>
    /\ long_df = <<>> /\ measurement_df = <<>> /\ fact_relationship = <<>>

AnnIdle ==
    /\ gene_list = <<>> /\ ann_records = <<>> /\ api = <<>> /\ vcf_out = FALSE
    /\ futures = <<>> /\ completed = <<>> /\ results = <<>> /\ written = <<>>
    /\ write_idx = 0 /\ run = 0 /\ first_map = <<>>

RetryIdle == vrs_id = "" /\ calls = <<>> /\ concept = Null

ScriptIdle ==
    /\ script = "" /\ dbwrite = FALSE /\ person_cols = {} /\ person_match = ""
    /\ obs_cols = {} /\ connection = "none" /\ files = {} /\ db = <<>>
    /\ session = Null /\ attempts = <<>> /\ inserting = ""
    /\ args = <<>> /\ person_df = <<>> /\ specimen = <<>>

(***************************************************************************)
(* Inputs of an expression run.                                            *)
(***************************************************************************)
PersonMapOf(cols, status) ==
    [s \in {cols[j] : j \in {i \in DOMAIN cols : status[i] # "unknown"}} |->
        [person_id |-> Some(PersonIdOf(CHOOSE j \in DOMAIN cols : cols[j] = s))]]

SpecimenDfOf(status) ==
    LET owners == SelectSeq([j \in DOMAIN status |-> j],
                            LAMBDA j : status[j] = "has_specimen")
    IN [i \in DOMAIN owners |->
           [person_id |-> PersonIdOf(owners[i]),
            specimen_id |-> SpecimenIdOf(PersonIdOf(owners[i]))]]

GexInit(geneSet, maxRows, maxSamples, maxVal) ==
    \E N \in 1..maxRows, M \in 1..maxSamples :
    \E genes \in [1..N -> geneSet],
       mapped \in SUBSET geneSet,
       vals \in [1..N -> [1..M -> 0..maxVal]],
       status \in [1..M -> PersonStatus],
       start \in {Null, Some(1), Some(3)} :
        /\ pc = "gex_main"
        /\ err = ""
        /\ expr_df = [i \in 1..N |->
               [gene |-> genes[i],
                concept_id |-> IF genes[i] \in mapped
                               THEN Some(ConceptIdOf(genes[i])) ELSE Null,
                vals |-> vals[i]]]
        /\ samples = SubSeq(SampleNames, 1, M)
        /\ person_map = PersonMapOf(SubSeq(SampleNames, 1, M), status)
        /\ specimen_df = SpecimenDfOf(status)
        /\ start_index = start
        /\ gene_map = <<>>
        /\ zscores = <<>>
        /\ vcf = <<>>
        /\ genomic_df = <<>>
        /\ id_map = <<>>
        /\ long_df = <<>>
        /\ measurement_df = <<>>
        /\ fact_relationship = <<>>
        /\ AnnIdle /\ RetryIdle /\ ScriptIdle

(***************************************************************************)
(* expression2measurement.py main and generate_gex_measurement_dataframe.  *)
(***************************************************************************)
\* main: gene_map = dict(zip(gene column, concept_id column))
GexMain ==
    /\ pc = "gex_main"
    /\ gene_map' = DictZip([i \in DOMAIN expr_df |-> expr_df[i].gene],
                           [i \in DOMAIN expr_df |-> expr_df[i].concept_id])
    /\ pc' = "gex_zscores"
    /\ UNCHANGED <<err, expr_df, samples, person_map, specimen_df, start_index,
                   zscores, vcf, genomic_df, id_map, long_df, measurement_df,
                   fact_relationship>>
    /\ UNCHANGED <<annVars, retryVars, scriptVars>>

\* section 1: the z-score matrix, one row per input row
GexZScores ==
    /\ pc = "gex_zscores"
    /\ zscores' = [i \in DOMAIN expr_df |->
           [gene |-> expr_df[i].gene,
            vals |-> [j \in DOMAIN expr_df[i].vals |-> ZScore(expr_df[i].vals, j)]]]
    /\ pc' = "gex_melt"
    /\ UNCHANGED <<err, expr_df, samples, person_map, specimen_df, start_index,
                   gene_map, vcf, genomic_df, id_map, long_df, measurement_df,
                   fact_relationship>>
    /\ UNCHANGED <<annVars, retryVars, scriptVars>>

\* sections 2 to 4: melt, merge, classification, mapped columns
GexMelt ==
    /\ pc = "gex_melt"
    /\ long_df' =
          LET merged == MergeLeft(long_expr(expr_df, samples),
                                  long_z(zscores, samples))
          IN [i \in DOMAIN merged |-> GexLongRow(merged[i], gene_map, person_map)]
    /\ pc' = "gex_filter"
    /\ UNCHANGED <<err, expr_df, samples, person_map, specimen_df, start_index,
                   gene_map, zscores, vcf, genomic_df, id_map, measurement_df,
                   fact_relationship>>
    /\ UNCHANGED <<annVars, retryVars, scriptVars>>

\* "remove rows without gene concept", then "Assign measurement_id"
GexFilterAssign ==
    /\ pc = "gex_filter"
    /\ long_df' = AssignMeasurementId(FilterConcept(long_df), start_index)
    /\ pc' = "gex_fact"
    /\ UNCHANGED <<err, expr_df, samples, person_map, specimen_df, start_index,
                   gene_map, zscores, vcf, genomic_df, id_map, measurement_df,
                   fact_relationship>>
    /\ UNCHANGED <<annVars, retryVars, scriptVars>>

\* the two halves of fact_relationship and long_df[omop_cols]
ReturnTables(kept) ==
    /\ long_df' = kept
    /\ fact_relationship' = fr_measure_to_spec(kept) \o fr_spec_to_measure(kept)
    /\ measurement_df' = omop_cols(kept)

\* section 5 and 6: specimen filter, fact_relationship, returned tables
GexFact ==
    /\ pc = "gex_fact"
    /\ ReturnTables(FilterSpecimen(MapSpecimen(long_df, specimen_map(specimen_df))))
    /\ pc' = "done"
    /\ UNCHANGED <<err, expr_df, samples, person_map, specimen_df, start_index,
                   gene_map, zscores, vcf, genomic_df, id_map>>
    /\ UNCHANGED <<annVars, retryVars, scriptVars>>

(***************************************************************************)
(* Strings as sequences of atoms.                                          *)
(***************************************************************************)
\* s.split(sep): the parts between the occurrences of sep
RECURSIVE Split(_, _)
Split(s, sep) ==
    IF \A i \in DOMAIN s : s[i] # sep
    THEN <<s>>
    ELSE LET k == CHOOSE i \in DOMAIN s :
                      s[i] = sep /\ \A j \in 1..(i - 1) : s[j] # sep
         IN <<SubSeq(s, 1, k - 1)>> \o Split(SubSeq(s, k + 1, Len(s)), sep)

\* sep.join(parts)
RECURSIVE Join(_, _)
Join(parts, sep) ==
    IF parts = <<>> THEN <<>>
    ELSE IF Len(parts) = 1 THEN parts[1]
    ELSE parts[1] \o <<sep>> \o Join(Tail(parts), sep)

Digits == <<"0", "1", "2", "3", "4", "5", "6", "7", "8", "9">>

\* str.isdigit(): not empty and digits only
IsDigit(s) == s # <<>> /\ \A i \in DOMAIN s : s[i] \in Range(Digits)

DigitValue(c) == (CHOOSE d \in DOMAIN Digits : Digits[d] = c) - 1

\* int(s) of a digit string
RECURSIVE ToInt(_)
ToInt(s) ==
    IF s = <<>> THEN 0
    ELSE 10 * ToInt(SubSeq(s, 1, Len(s) - 1)) + DigitValue(s[Len(s)])

(***************************************************************************)
(* The VCF genotype normalizer.                                            *)
(***************************************************************************)
\* the genotypes parse_genotype takes for missing without looking further
MissingGenotypes == {<<"-", "1">>, <<".">>, <<".", "/", ".">>}

\* a parser that knows the '/' separator only
parse_genotype_slash_only(gt_raw) ==
    IF gt_raw \in MissingGenotypes THEN Null
    ELSE IF "/" \in Range(gt_raw) THEN Some(Split(gt_raw, "/"))
    ELSE Null

\* None for a missing or unsplittable genotype, else the allele indices
parse_genotype(gt_raw) ==
    IF gt_raw \in MissingGenotypes THEN Null
    ELSE IF "/" \in Range(gt_raw) THEN Some(Split(gt_raw, "/"))
    ELSE IF "|" \in Range(gt_raw) THEN Some(Split(gt_raw, "|"))
    ELSE Null

\* the items of an INFO field that contain '='
InfoItems(info_field) ==
    SelectSeq(Split(info_field, ";"), LAMBDA it : "=" \in Range(it))

\* dict(item.split('=') for item in ...)
InfoDict(items) ==
    DictZip([i \in DOMAIN items |-> Split(items[i], "=")[1]],
            [i \in DOMAIN items |-> Split(items[i], "=")[2]])

\* info_parts.get(key, '')
InfoGet(info_parts, key) ==
    IF key \in DOMAIN info_parts THEN info_parts[key] ELSE <<>>

\* the OMOP_Concept_IDs of an INFO field; [''] when the key is absent
parse_info(info_field) ==
    Split(InfoGet(InfoDict(InfoItems(info_field)), <<"OMOP_Concept_IDs">>), ",")

\* all_alleles[int(i)] if i.isdigit() and int(i) < len(all_alleles) else None
AlleleAt(i, all_alleles) ==
    IF IsDigit(i) /\ ToInt(i) < Len(all_alleles)
    THEN Some(all_alleles[ToInt(i) + 1])
    ELSE Null

\* None for an unparsed genotype, else the list of its alleles
ConvertParsed(parsed, all_alleles) ==
    IF IsNull(parsed) THEN Null
    ELSE Some([i \in DOMAIN Val(parsed) |-> AlleleAt(Val(parsed)[i], all_alleles)])

ConvertGenotype(gt, all_alleles) ==
    ConvertParsed(parse_genotype(gt), all_alleles)

\* "/".join(alleles) raises TypeError on a None allele
JoinRaises(alleles) ==
    ~IsNull(alleles) /\ \E i \in DOMAIN Val(alleles) : IsNull(Val(alleles)[i])

\* "Missing", or "{alleles joined by /}_{status}"
evaluate_genotype(alleles, current_allele) ==
    IF IsNull(alleles) THEN <<"Missing">>
    ELSE Join([i \in DOMAIN Val(alleles) |-> Val(Val(alleles)[i])], "/")
         \o <<"_">>
         \o (IF Some(current_allele) \in Range(Val(alleles))
             THEN <<"positive">> ELSE <<"negative">>)

\* ref_id = omop_ids[0] if len(omop_ids) >= 1 else "-"
RefId(omop_ids) == IF Len(omop_ids) >= 1 THEN omop_ids[1] ELSE <<"-">>

\* alt_ids = omop_ids[1:] if len(omop_ids) > 1 else []
AltIds(omop_ids) == IF Len(omop_ids) > 1 THEN Tail(omop_ids) ELSE <<>>

\* one output row: [ID, concept id, a call per sample]
OutputRow(var_id, allele, cid, converted_genotypes, line) ==
    [ID |-> var_id \o <<"_">> \o allele,
     OMOP_Concept_ID |-> cid,
     calls |-> [j \in DOMAIN converted_genotypes |->
                  evaluate_genotype(converted_genotypes[j], allele)],
     line |-> line]

\* zip(alt_alleles, alt_ids) stops at the shorter list
ZipLen(a, b) == IF Len(a) < Len(b) THEN Len(a) ELSE Len(b)

\* the REF row unless ref_id is '-', then a row per (ALT allele, concept
\* id) pair whose id is not '-'
EmitRows(var_id, ref, alt_alleles, ref_id, alt_ids, converted_genotypes, line) ==
    (IF ref_id # <<"-">>
     THEN <<OutputRow(var_id, ref, ref_id, converted_genotypes, line)>>
     ELSE <<>>)
    \o Flatten([i \in 1..ZipLen(alt_alleles, alt_ids) |->
          IF alt_ids[i] = <<"-">> THEN <<>>
          ELSE <<OutputRow(var_id, alt_alleles[i], alt_ids[i],
                           converted_genotypes, line)>>])

\* a row is built for the data line
Emits(alt_alleles, ref_id, alt_ids) ==
    \/ ref_id # <<"-">>
    \/ \E i \in 1..ZipLen(alt_alleles, alt_ids) : alt_ids[i] # <<"-">>

\* building a row raises when a genotype of the line has a None allele
RowsOrRaise(var_id, ref, alt_alleles, ref_id, alt_ids, converted_genotypes, line) ==
    IF /\ Emits(alt_alleles, ref_id, alt_ids)
       /\ \E j \in DOMAIN converted_genotypes : JoinRaises(converted_genotypes[j])
    THEN [raises |-> TRUE, rows |-> <<>>]
    ELSE [raises |-> FALSE,
          rows |-> EmitRows(var_id, ref, alt_alleles, ref_id, alt_ids,
                            converted_genotypes, line)]

RecordRowsFrom(rec, alt_alleles, omop_ids, line) ==
    RowsOrRaise(rec.var_id, rec.ref, alt_alleles, RefId(omop_ids), AltIds(omop_ids),
                [j \in DOMAIN rec.gts |->
                    ConvertGenotype(rec.gts[j], <<rec.ref>> \o alt_alleles)],
                line)

\* the rows one data line contributes
RecordRows(rec, line) ==
    RecordRowsFrom(rec, Split(rec.alt, ","), parse_info(rec.info), line)

\* the whole file: a TypeError in any emitted row ends the function
ConvertResult(per) ==
    IF \E r \in DOMAIN per : per[r].raises
    THEN [err |-> "TypeError", df |-> <<>>]
    ELSE [err |-> "", df |-> Flatten([r \in DOMAIN per |-> per[r].rows])]

convert_vcf_to_row_col_format(records) ==
    ConvertResult([r \in DOMAIN records |-> RecordRows(records[r], r)])

(***************************************************************************)
(* generate_genomic_measurement_dataframe: melt, split, mapped columns.    *)
(***************************************************************************)
genomic_melt(df, cols) ==
    [k \in 1..(Len(df) * Len(cols)) |->
        LET p == MeltIndex(Len(df), k) IN
        [ID |-> df[p.row].ID,
         person_source_value |-> cols[p.col],
         genomic_value |-> df[p.row].calls[p.col],
         line |-> df[p.row].line]]

\* the number of columns of str.split('_', expand=True): the most parts of
\* any value, none for an empty column
SplitWidth(long) ==
    IF long = <<>> THEN 0
    ELSE MaxOf({Len(Split(long[i].genomic_value, "_")) : i \in DOMAIN long})

\* part n of the split, None where the value has fewer parts
PartOf(parts, n) == IF n <= Len(parts) THEN Some(parts[n]) ELSE Null

SplitPart(value, n) == PartOf(Split(value, "_"), n)

status_map(status) ==
    IF status = Some(<<"positive">>) THEN Some(9191)
    ELSE IF status = Some(<<"negative">>) THEN Some(9189)
    ELSE Null

value_map(status) ==
    IF status = Some(<<"positive">>) THEN Some(1)
    ELSE IF status = Some(<<"negative">>) THEN Some(0)
    ELSE IF status = Some(<<"Missing">>) THEN Some(-1)
    ELSE Null

\* fillna('./.')
FillNa(v, dflt) == IF IsNull(v) THEN Some(dflt) ELSE v

GenomicLongRowOf(r, status, imap, pmap) ==
    [ID |-> r.ID,
     line |-> r.line,
     person_source_value |-> r.person_source_value,
     genomic_value |-> r.genomic_value,
     status |-> status,
     value_source_value |-> FillNa(SplitPart(r.genomic_value, 1), <<".", "/", ".">>),
     value_as_concept_id |-> status_map(status),
     value_as_number |-> value_map(status),
     person_id |-> PersonIdFor(pmap, r.person_source_value),
     measurement_concept_id |-> DictGet(imap, r.ID),
     measurement_source_value |-> r.ID,
     measurement_id |-> Null,
     specimen_id |-> Null]

GenomicLongRow(r, imap, pmap) ==
    GenomicLongRowOf(r, SplitPart(r.genomic_value, 2), imap, pmap)

(***************************************************************************)
(* Inputs of a genomic run.                                                *)
(***************************************************************************)
\* the INFO column: the annotator writes OMOP_Concept_IDs, or OMOP_Error
\* alone when the mapping of the record failed
InfoOf(ids) ==
    IF IsNull(ids) THEN <<"OMOP_Error", "=", "HTTPError">>
    ELSE <<"VRS_Allele_IDs", "=", "ga4gh:VA.x", ";", "OMOP_Concept_IDs", "=">>
         \o Join(Val(ids), ",")

\* the concept id annotated for allele number n of a record, or '-'
AlleleConceptIds(n) == {<<"-">>, <<<<"100">>, <<"200">>, <<"300">>>>[n]}

IdChoices(nAlleles) ==
    {Null} \cup {Some(ids) : ids \in
        {f \in [1..nAlleles -> {<<"-">>, <<"100">>, <<"200">>, <<"300">>}] :
            \A n \in 1..nAlleles : f[n] \in AlleleConceptIds(n)}}

VcfRecords(alts, genotypes, M) ==
    UNION {{[var_id |-> id, ref |-> <<"A">>, alt |-> alt, info |-> InfoOf(ids),
             gts |-> gts] :
               id \in {<<".">>, <<"rs1">>},
               ids \in IdChoices(1 + Len(Split(alt, ","))),
               gts \in [1..M -> genotypes]} : alt \in alts}

VcfInit(maxRecords, maxSamples, alts, genotypes) ==
    \E R \in 1..maxRecords, M \in 1..maxSamples :
    \E records \in [1..R -> VcfRecords(alts, genotypes, M)],
       status \in [1..M -> PersonStatus],
       start \in {Null, Some(1), Some(3)} :
        /\ pc = "vcf_normalize"
        /\ err = ""
        /\ vcf = records
        /\ samples = SubSeq(SampleNames, 1, M)
        /\ person_map = PersonMapOf(SubSeq(SampleNames, 1, M), status)
        /\ specimen_df = SpecimenDfOf(status)
        /\ start_index = start
        /\ expr_df = <<>>
        /\ gene_map = <<>>
        /\ zscores = <<>>
        /\ genomic_df = <<>>
        /\ id_map = <<>>
        /\ long_df = <<>>
        /\ measurement_df = <<>>
        /\ fact_relationship = <<>>
        /\ AnnIdle /\ RetryIdle /\ ScriptIdle

(***************************************************************************)
(* vcf2measurement.py main.                                                *)
(***************************************************************************)
\* vcf_df = loader.convert_vcf_to_row_col_format(...); an exception ends
\* the script in main's except clause, before any output
NormalizeReturns(out) ==
    /\ err' = out.err
    /\ genomic_df' = out.df
    /\ pc' = IF out.err = "" THEN "vcf_main" ELSE "error"

VcfNormalize ==
    /\ pc = "vcf_normalize"
    /\ NormalizeReturns(convert_vcf_to_row_col_format(vcf))
    /\ UNCHANGED <<expr_df, samples, person_map, specimen_df, start_index,
                   gene_map, zscores, vcf, id_map, long_df, measurement_df,
                   fact_relationship>>
    /\ UNCHANGED <<annVars, retryVars, scriptVars>>

\* id_map = vcf_df.set_index("ID")["OMOP_Concept_ID"].to_dict()
VcfMain ==
    /\ pc = "vcf_main"
    /\ id_map' = DictZip([i \in DOMAIN genomic_df |-> genomic_df[i].ID],
                         [i \in DOMAIN genomic_df |->
                             Some(genomic_df[i].OMOP_Concept_ID)])
    /\ pc' = "vcf_melt"
    /\ UNCHANGED <<err, expr_df, samples, person_map, specimen_df, start_index,
                   gene_map, zscores, vcf, genomic_df, long_df, measurement_df,
                   fact_relationship>>
    /\ UNCHANGED <<annVars, retryVars, scriptVars>>

\* the assignment of the split to two columns raises ValueError unless the
\* split has exactly two columns
SplitAndMap(long) ==
    IF SplitWidth(long) # 2
    THEN /\ err' = "ValueError"
         /\ pc' = "error"
         /\ long_df' = <<>>
    ELSE /\ err' = ""
         /\ pc' = "vcf_filter"
         /\ long_df' = [i \in DOMAIN long |->
                           GenomicLongRow(long[i], id_map, person_map)]

\* melt, the split of the call, the mapped columns
GenomicMelt ==
    /\ pc = "vcf_melt"
    /\ SplitAndMap(genomic_melt(genomic_df, samples))
    /\ UNCHANGED <<expr_df, samples, person_map, specimen_df, start_index,
                   gene_map, zscores, vcf, genomic_df, id_map, measurement_df,
                   fact_relationship>>
    /\ UNCHANGED <<annVars, retryVars, scriptVars>>

\* "Exclude rows if measurement_concept_id is NA or None, then fill up
\* measurement_id if applicable"
GenomicFilterAssign ==
    /\ pc = "vcf_filter"
    /\ long_df' = AssignMeasurementId(FilterConcept(long_df), start_index)
    /\ pc' = "vcf_fact"
    /\ UNCHANGED <<err, expr_df, samples, person_map, specimen_df, start_index,
                   gene_map, zscores, vcf, genomic_df, id_map, measurement_df,
                   fact_relationship>>
    /\ UNCHANGED <<annVars, retryVars, scriptVars>>

\* specimen filter, fact_relationship, returned tables
GenomicFact ==
    /\ pc = "vcf_fact"
    /\ ReturnTables(FilterSpecimen(MapSpecimen(long_df, specimen_map(specimen_df))))
    /\ pc' = "done"
    /\ UNCHANGED <<err, expr_df, samples, person_map, specimen_df, start_index,
                   gene_map, zscores, vcf, genomic_df, id_map>>
    /\ UNCHANGED <<annVars, retryVars, scriptVars>>

Init == GexInit(Genes, MaxRows, MaxSamples, MaxVal)

Next == GexMain \/ GexZScores \/ GexMelt \/ GexFilterAssign \/ GexFact

Spec == Init /\ [][Next]_vars

\* one gene row, more samples and values: the z-score cases
InitZ == GexInit({"G1"}, 1, ZMaxSamples, ZMaxVal)

SpecZ == InitZ /\ [][Next]_vars

\* the genomic conversion
InitVcf ==
    VcfInit(MaxRecords, VcfMaxSamples, {<<"G">>},
            {<<"1", "/", "1">>, <<".", "/", ".">>})

NextVcf ==
    VcfNormalize \/ VcfMain \/ GenomicMelt \/ GenomicFilterAssign \/ GenomicFact

SpecVcf == InitVcf /\ [][NextVcf]_vars

\* one data line, one or two ALT alleles, more genotype spellings: the
\* normalizer cases
InitGT ==
    VcfInit(1, GtMaxSamples, {<<"G">>, <<"G", ",", "T">>},
            {<<"0", "/", "1">>, <<"1", "/", "1">>, <<"0", "|", "1">>,
             <<".", "/", ".">>, <<".", "|", ".">>, <<".">>, <<"-", "1">>,
             <<"0", "/", "2">>, <<".", "/", "1">>})

SpecGT == InitGT /\ [][NextVcf]_vars

\* one data line whose ALT allele is a plain base or a symbolic allele
\* with an underscore in its name: the split of the call
InitSplit ==
    VcfInit(1, GtMaxSamples, {<<"G">>, <<"<DUP", "_", "TANDEM>">>},
            {<<"0", "/", "1">>, <<"0", "/", "0">>, <<".", "/", ".">>})

SpecSplit == InitSplit /\ [][NextVcf]_vars

\* the concept id annotated for allele number n of data line r: every
\* line is a variant of its own
LineConceptId(r, n) ==
    <<<<<<"110">>, <<"120">>>>, <<<<"210">>, <<"220">>>>,
      <<<<"310">>, <<"320">>>>, <<<<"410">>, <<"420">>>>>>[r][n]

\* the records data line r can be: REF A, ALT G, any of the two ids
\* replaced by '-'
LineRecords(r, genotypes, M) ==
    {[var_id |-> id, ref |-> <<"A">>, alt |-> <<"G">>,
      info |-> InfoOf(Some(<<ref_id, alt_id>>)), gts |-> gts] :
        id \in {<<".">>, <<"rs1">>},
        ref_id \in {<<"-">>, LineConceptId(r, 1)},
        alt_id \in {<<"-">>, LineConceptId(r, 2)},
        gts \in [1..M -> genotypes]}

\* several data lines, each with its own concept ids, whose ID column can
\* be the same
InitDup ==
    \E R \in 2..MaxRecords, M \in 1..VcfMaxSamples :
    \E records \in [1..R -> UNION {LineRecords(r, {<<"0", "/", "1">>}, M) :
                                     r \in 1..R}],
       status \in [1..M -> PersonStatus],
       start \in {Null, Some(1)} :
        /\ \A r \in 1..R : records[r] \in LineRecords(r, {<<"0", "/", "1">>}, M)
        /\ pc = "vcf_normalize"
        /\ err = ""
        /\ vcf = records
        /\ samples = SubSeq(SampleNames, 1, M)
        /\ person_map = PersonMapOf(SubSeq(SampleNames, 1, M), status)
        /\ specimen_df = SpecimenDfOf(status)
        /\ start_index = start
        /\ expr_df = <<>>
        /\ gene_map = <<>>
        /\ zscores = <<>>
        /\ genomic_df = <<>>
        /\ id_map = <<>>
        /\ long_df = <<>>
        /\ measurement_df = <<>>
        /\ fact_relationship = <<>>
        /\ AnnIdle /\ RetryIdle /\ ScriptIdle

SpecDup == InitDup /\ [][NextVcf]_vars

(***************************************************************************)
(* The mapping API as the annotators see it.  A response is what one HTTP  *)
(* GET hands back: a status and a JSON body, or a raised exception         *)
(* (connection error, timeout).  json is "object" for a JSON object,       *)
(* "empty" for {} and "malformed" when response.json() raises; concept_id  *)
(* is the value of the field of that name (Null when the object has none). *)
(***************************************************************************)
ResponseOk(n) ==
    [error |-> FALSE, status |-> 200, json |-> "object", concept_id |-> Some(n)]

ResponseNoField ==
    [error |-> FALSE, status |-> 200, json |-> "object", concept_id |-> Null]

ResponseEmpty ==
    [error |-> FALSE, status |-> 200, json |-> "empty", concept_id |-> Null]

ResponseMalformed ==
    [error |-> FALSE, status |-> 200, json |-> "malformed", concept_id |-> Null]

ResponseStatus(st) ==
    [error |-> FALSE, status |-> st, json |-> "malformed", concept_id |-> Null]

RequestFailed ==
    [error |-> TRUE, status |-> 0, json |-> "malformed", concept_id |-> Null]

\* the responses the API can give for key k, whose concept id is cid
ResponsesFor(cid) ==
    {ResponseOk(cid), ResponseNoField, ResponseMalformed, ResponseStatus(404),
     RequestFailed}

VrsIds == {"VA.1", "VA.2"}
VrsConceptIdOf(v) == IF v = "VA.1" THEN 201 ELSE 202

(***************************************************************************)
(* annotator_modules/omop_loader.py: OMOP_Annotator.                       *)
(***************************************************************************)
max_workers == 8

\* get_concept_id: the concept_id of a 200 response, None otherwise; every
\* exception of the request or of response.json() is caught
get_concept_id(response) ==
    IF response.error THEN Null
    ELSE IF response.status # 200 THEN Null
    ELSE IF response.json = "malformed" THEN Null
    ELSE IF response.json = "empty" THEN Null
    ELSE response.concept_id

\* d[k] = v
DictSet(d, k, v) == [x \in DOMAIN d \cup {k} |-> IF x = k THEN v ELSE d[x]]

\* the tasks that are in state st
TasksIn(st) == {i \in DOMAIN futures : futures[i].state = st}

\* the loop over as_completed(futures) ends when it has yielded every future
FirstCompleted == Len(completed) >= 1

as_completed_exhausted == Len(completed) = Len(futures)

\* futures[future]: the key the task was submitted for
FutureGeneByArrival(i) == gene_list[Len(completed) + 1]

FutureGene(i) == gene_list[i]

GeneInit(maxKeys) ==
    \E n \in 1..maxKeys :
    \E keys \in [1..n -> Genes],
       responses \in [Genes -> UNION {ResponsesFor(ConceptIdOf(g)) : g \in Genes}] :
        /\ \A g \in Genes : responses[g] \in ResponsesFor(ConceptIdOf(g))
        /\ pc = "map_submit"
        /\ err = ""
        /\ gene_list = keys
        /\ api = responses
        /\ ann_records = <<>> /\ vcf_out = FALSE
        /\ futures = <<>> /\ completed = <<>> /\ results = <<>>
        /\ written = <<>> /\ write_idx = 0 /\ run = 1 /\ first_map = <<>>
        /\ ConvIdle /\ RetryIdle /\ ScriptIdle

\* executor.submit(self.get_concept_id, gene), one key after the other
MapSubmit ==
    /\ pc = "map_submit"
    /\ futures' = Append(futures, [state |-> "queued", result |-> Null])
    /\ pc' = IF Len(futures) + 1 = Len(gene_list) THEN "map_collect"
             ELSE "map_submit"
    /\ UNCHANGED <<err, convVars, gene_list, ann_records, api, vcf_out,
                   completed, results, written, write_idx, run, first_map, retryVars,
                   scriptVars>>

\* a pool that starts a thread for every submitted task
worker_per_task == TRUE

\* ThreadPoolExecutor(max_workers=max_workers): a worker is idle, or the
\* pool has fewer than max_workers threads and starts one
worker_available == Cardinality(TasksIn("running")) < max_workers

\* a worker of the pool takes the oldest queued task
TaskStart ==
    /\ TasksIn("queued") # {}
    /\ worker_available
    /\ futures' = [futures EXCEPT
                     ![CHOOSE i \in TasksIn("queued") :
                          \A j \in TasksIn("queued") : i <= j].state = "running"]
    /\ UNCHANGED <<pc, err, convVars, gene_list, ann_records, api, vcf_out,
                   completed, results, written, write_idx, run, first_map, retryVars,
                   scriptVars>>

\* a worker finishes get_concept_id(gene)
MapTaskFinish ==
    /\ gene_list # <<>>
    /\ \E i \in TasksIn("running") :
          futures' = [futures EXCEPT
                        ![i] = [state |-> "finished",
                                result |-> get_concept_id(api[gene_list[i]])]]
    /\ UNCHANGED <<pc, err, convVars, gene_list, ann_records, api, vcf_out,
                   completed, results, written, write_idx, run, first_map, retryVars,
                   scriptVars>>

\* one turn of "for future in as_completed(futures)":
\* gene_map[futures[future]] = future.result()
MapCollect ==
    /\ pc = "map_collect"
    /\ \E i \in TasksIn("finished") \ Range(completed) :
          /\ gene_map' = DictSet(gene_map, FutureGene(i), futures[i].result)
          /\ completed' = Append(completed, i)
    /\ UNCHANGED <<pc, err, expr_df, samples, person_map, specimen_df,
                   start_index, zscores, vcf, genomic_df, id_map, long_df,
                   measurement_df, fact_relationship, gene_list, ann_records,
                   api, vcf_out, futures, results, written, write_idx, run, first_map,
                   retryVars, scriptVars>>

\* as_completed is exhausted: the pool is shut down and gene_map returned
MapReturn ==
    /\ pc = "map_collect"
    /\ as_completed_exhausted
    /\ pc' = "map_done"
    /\ UNCHANGED <<err, convVars, annVars, retryVars, scriptVars>>

\* exp-annotator.py is run once more on the same input
MapRunAgain ==
    /\ pc = "map_done"
    /\ run = 1
    /\ run' = 2
    /\ first_map' = gene_map
    /\ gene_map' = <<>>
    /\ futures' = <<>>
    /\ completed' = <<>>
    /\ pc' = "map_submit"
    /\ UNCHANGED <<err, expr_df, samples, person_map, specimen_df,
                   start_index, zscores, vcf, genomic_df, id_map, long_df,
                   measurement_df, fact_relationship, gene_list, ann_records,
                   api, vcf_out, results, written, write_idx, retryVars, scriptVars>>

(***************************************************************************)
(* ga4gh/omop.py: OMOPAnnotator.annotate.                                  *)
(***************************************************************************)
\* a Python value that is a concept id (an int) or the string "-"
Found(n) == [is_id |-> TRUE, id |-> n]
Sentinel == [is_id |-> FALSE, id |-> 0]

\* str(n), digit by digit
RECURSIVE IntToStr(_)
IntToStr(n) ==
    IF n < 10 THEN <<Digits[n + 1]>>
    ELSE IntToStr(n \div 10) \o <<Digits[(n % 10) + 1]>>

\* str(x) if x is not None else "-"
InfoStr(x) == IF x.is_id THEN IntToStr(x.id) ELSE <<"-">>

\* fetch_concept: the concept id of a 200 response that carries one, "-"
\* for the key "-" (no request is made) and in every other case
fetch_concept(v, response) ==
    IF v = "-" THEN Sentinel
    ELSE IF response.error THEN Sentinel
    ELSE IF response.status # 200 THEN Sentinel
    ELSE IF response.json = "malformed" THEN Sentinel
    ELSE IF response.json = "empty" THEN Sentinel
    ELSE IF IsNull(response.concept_id) THEN Sentinel
    ELSE Found(Val(response.concept_id))

\* what the session hands back for a key of the record
SessionResponse(v) == IF v \in VrsIds THEN api[v] ELSE RequestFailed

\* _get_omop_data: omop_field_data has the key OMOP_Concept_IDs only when an
\* output VCF is written; without it the append of the first concept id
\* raises KeyError
get_omop_data(vrs_ids) ==
    IF vcf_out
    THEN [raised |-> FALSE, field |-> "OMOP_Concept_IDs",
          values |-> [i \in DOMAIN vrs_ids |->
                         fetch_concept(vrs_ids[i], SessionResponse(vrs_ids[i]))]]
    ELSE IF vrs_ids = <<>>
    THEN [raised |-> FALSE, field |-> "", values |-> <<>>]
    ELSE [raised |-> TRUE, field |-> "", values |-> <<>>]

\* process_record: an exception of _get_omop_data becomes the OMOP_Error
\* field of the record
ErrorResult(data) ==
    IF data.raised
    THEN [raised |-> TRUE, field |-> "OMOP_Error", values |-> <<>>]
    ELSE data

process_record(vrs_ids) == ErrorResult(get_omop_data(vrs_ids))

\* VRS_Allele_IDs of the input records
RecordKinds == {<<"VA.1">>, <<"-", "VA.2">>, <<"VA.1", "VA.2">>}

AnnInit(maxRecords) ==
    \E n \in 1..maxRecords :
    \E records \in [1..n -> RecordKinds],
       responses \in [VrsIds -> UNION {ResponsesFor(VrsConceptIdOf(v)) : v \in VrsIds}],
       out \in BOOLEAN :
        /\ \A v \in VrsIds : responses[v] \in ResponsesFor(VrsConceptIdOf(v))
        /\ pc = "ann_submit"
        /\ err = ""
        /\ ann_records = records
        /\ api = responses
        /\ vcf_out = out
        /\ gene_list = <<>>
        /\ futures = <<>> /\ completed = <<>> /\ results = <<>>
        /\ written = <<>> /\ write_idx = 0 /\ run = 1 /\ first_map = <<>>
        /\ ConvIdle /\ RetryIdle /\ ScriptIdle

\* futures[idx] = executor.submit(process_record, idx, record)
AnnSubmit ==
    /\ pc = "ann_submit"
    /\ futures' = Append(futures, [state |-> "queued", result |-> Null])
    /\ pc' = IF Len(futures) + 1 = Len(ann_records) THEN "ann_collect"
             ELSE "ann_submit"
    /\ UNCHANGED <<err, convVars, gene_list, ann_records, api, vcf_out,
                   completed, results, written, write_idx, run, first_map, retryVars,
                   scriptVars>>

\* a worker finishes process_record(idx, record)
AnnTaskFinish ==
    /\ ann_records # <<>>
    /\ \E i \in TasksIn("running") :
          futures' = [futures EXCEPT
                        ![i] = [state |-> "finished",
                                result |-> process_record(ann_records[i])]]
    /\ UNCHANGED <<pc, err, convVars, gene_list, ann_records, api, vcf_out,
                   completed, results, written, write_idx, run, first_map, retryVars,
                   scriptVars>>

\* one turn of "for future in as_completed(futures.values())":
\* results[idx] = (record, omop_field_data, info_fields)
AnnCollect ==
    /\ pc = "ann_collect"
    /\ \E i \in TasksIn("finished") \ Range(completed) :
          /\ results' = DictSet(results, i, futures[i].result)
          /\ completed' = Append(completed, i)
    /\ UNCHANGED <<pc, err, convVars, gene_list, ann_records, api, vcf_out,
                   futures, written, write_idx, run, first_map, retryVars,
                   scriptVars>>

\* as_completed is exhausted: the loop that writes starts at idx 0
AnnCollected ==
    /\ pc = "ann_collect"
    /\ as_completed_exhausted
    /\ pc' = "ann_write"
    /\ UNCHANGED <<err, convVars, annVars, retryVars, scriptVars>>

\* record.info[k.value] = [str(x) ...]; vcf_out.write(record)
WrittenRecord(i, result) ==
    [idx |-> i, field |-> result.field,
     values |-> [j \in DOMAIN result.values |-> InfoStr(result.values[j])]]

\* the k-th idx of "for idx in range(len(results))", counted from 1
CompletionIdx(k) == completed[k]

RangeIdx(k) == k

\* one turn of "for idx in range(len(results))"
AnnWrite ==
    /\ pc = "ann_write"
    /\ write_idx < Len(completed)
    /\ write_idx' = write_idx + 1
    /\ written' = IF vcf_out
                  THEN Append(written,
                              WrittenRecord(RangeIdx(write_idx + 1),
                                            results[RangeIdx(write_idx + 1)]))
                  ELSE written
    /\ UNCHANGED <<pc, err, convVars, gene_list, ann_records, api, vcf_out,
                   futures, completed, results, run, first_map, retryVars,
                   scriptVars>>

\* executor.shutdown(), the files are closed
AnnClose ==
    /\ pc = "ann_write"
    /\ write_idx = Len(completed)
    /\ pc' = "ann_done"
    /\ UNCHANGED <<err, convVars, annVars, retryVars, scriptVars>>

\* the first occurrences of the elements of a sequence, in order
RECURSIVE Distinct(_)
Distinct(seq) ==
    IF seq = <<>> THEN <<>>
    ELSE IF seq[Len(seq)] \in Range(SubSeq(seq, 1, Len(seq) - 1))
    THEN Distinct(SubSeq(seq, 1, Len(seq) - 1))
    ELSE Append(Distinct(SubSeq(seq, 1, Len(seq) - 1)), seq[Len(seq)])

\* gene_map.items(): a dict keeps its keys in the order of their first
\* insertion, here the order in which as_completed yielded the futures
gene_map_items ==
    LET keys == Distinct([k \in DOMAIN completed |-> FutureGene(completed[k])])
    IN [k \in DOMAIN keys |-> [gene |-> keys[k], concept_id |-> gene_map[keys[k]]]]

\* pd.merge(gene_df, gex_df, on=gene_col, how='left'): the rows of gene_df
\* in their order, each with the rows of gex_df of the same gene
merge_gene_df(gene_df, gex_genes) ==
    Flatten([k \in DOMAIN gene_df |->
        LET hit == SelectSeq([i \in DOMAIN gex_genes |-> i],
                             LAMBDA i : gex_genes[i] = gene_df[k].gene)
        IN [h \in DOMAIN hit |->
               [gene |-> gene_df[k].gene,
                concept_id |-> gene_df[k].concept_id,
                row |-> hit[h]]]])

\* exp-annotator.py: gene_df from the items of gene_map, the merge with
\* the input and final_df.to_csv(args.outfile)
ExpWrite ==
    /\ pc = "map_done"
    /\ written' = merge_gene_df(gene_map_items, gene_list)
    /\ pc' = "exp_done"
    /\ UNCHANGED <<err, convVars, gene_list, ann_records, api, vcf_out,
                   futures, completed, results, write_idx, run, first_map,
                   retryVars, scriptVars>>

\* one run of exp-annotator.py
InitExp == GeneInit(MaxKeys)

NextExp ==
    \/ MapSubmit \/ TaskStart \/ MapTaskFinish \/ MapCollect \/ MapReturn
    \/ ExpWrite

SpecExp == InitExp /\ [][NextExp]_vars

\* one call of map_gene_concept_ids with more keys than the pool has
\* workers; every key gets the same answer
PoolInit(nKeys) ==
    /\ pc = "map_submit"
    /\ err = ""
    /\ gene_list = [i \in 1..nKeys |-> "G1"]
    /\ api = [g \in {"G1"} |-> ResponseOk(ConceptIdOf(g))]
    /\ ann_records = <<>> /\ vcf_out = FALSE
    /\ futures = <<>> /\ completed = <<>> /\ results = <<>>
    /\ written = <<>> /\ write_idx = 0 /\ run = 1 /\ first_map = <<>>
    /\ ConvIdle /\ RetryIdle /\ ScriptIdle

InitPool == PoolInit(PoolKeys)

NextPool == MapSubmit \/ TaskStart \/ MapTaskFinish \/ MapCollect \/ MapReturn

SpecPool == InitPool /\ [][NextPool]_vars

InitAnnot == GeneInit(MaxKeys) \/ AnnInit(MaxAnnRecords)

NextAnnot ==
    \/ MapSubmit \/ TaskStart \/ MapTaskFinish \/ MapCollect \/ MapReturn
    \/ MapRunAgain
    \/ AnnSubmit \/ AnnTaskFinish \/ AnnCollect \/ AnnCollected \/ AnnWrite
    \/ AnnClose

SpecAnnot == InitAnnot /\ [][NextAnnot]_vars

\* every HTTP call returns or fails, the pool runs its tasks and the main
\* thread runs on
SpecAnnotLive ==
    /\ InitAnnot
    /\ [][NextAnnot]_vars
    /\ WF_vars(MapSubmit) /\ WF_vars(TaskStart) /\ WF_vars(MapTaskFinish)
    /\ WF_vars(MapCollect) /\ WF_vars(MapReturn) /\ WF_vars(MapRunAgain)
    /\ WF_vars(AnnSubmit) /\ WF_vars(AnnTaskFinish) /\ WF_vars(AnnCollect)
    /\ WF_vars(AnnCollected) /\ WF_vars(AnnWrite) /\ WF_vars(AnnClose)

(***************************************************************************)
(* ga4gh/omop.py: one fetch_concept call through _session, the session     *)
(* whose adapters retry with Retry(total=5, backoff_factor=0.5,            *)
(* status_forcelist=[500, 502, 503, 504], raise_on_status=False).  Such a  *)
(* Retry object counts every retried attempt against total, whether the    *)
(* attempt ended in a listed status or in a connection or read error; when *)
(* the count is used up the last response is handed back, or the error is  *)
(* raised.  The length of the pauses is not modelled.                      *)
(***************************************************************************)
total == 5
status_forcelist == {500, 502, 503, 504}

\* what one HTTP attempt can end in
AttemptOutcomes ==
    {ResponseOk(VrsConceptIdOf("VA.1")), ResponseNoField, ResponseEmpty,
     ResponseMalformed, ResponseStatus(404), ResponseStatus(500),
     ResponseStatus(501), ResponseStatus(503), RequestFailed}

\* the attempt is one the Retry object retries
is_retry(outcome) == outcome.error \/ outcome.status \in status_forcelist

InitRetry ==
    /\ pc = "fetch"
    /\ err = ""
    /\ vrs_id \in {"-", "VA.1"}
    /\ calls = <<>>
    /\ concept = Null
    /\ ConvIdle /\ AnnIdle /\ ScriptIdle

\* fetch_concept(vrs_id): the key "-" is answered without a request
FetchStart ==
    /\ pc = "fetch"
    /\ concept' = IF vrs_id = "-" THEN Some(Sentinel) ELSE Null
    /\ pc' = IF vrs_id = "-" THEN "fetched" ELSE "fetch_get"
    /\ UNCHANGED <<err, convVars, annVars, vrs_id, calls, scriptVars>>

\* one HTTP attempt of _session.get(url, verify=False, timeout=10)
SessionGet ==
    /\ pc = "fetch_get"
    /\ \E outcome \in AttemptOutcomes :
          /\ calls' = Append(calls, outcome)
          /\ pc' = IF is_retry(outcome) /\ Len(calls) < total
                   THEN "fetch_backoff" ELSE "fetch_return"
    /\ UNCHANGED <<err, convVars, annVars, vrs_id, concept, scriptVars>>

\* the pause before the next attempt
Backoff ==
    /\ pc = "fetch_backoff"
    /\ pc' = "fetch_get"
    /\ UNCHANGED <<err, convVars, annVars, retryVars, scriptVars>>

\* the session hands back the last response or raises the last error;
\* fetch_concept turns it into a concept id or "-"
FetchReturn ==
    /\ pc = "fetch_return"
    /\ concept' = Some(fetch_concept(vrs_id, calls[Len(calls)]))
    /\ pc' = "fetched"
    /\ UNCHANGED <<err, convVars, annVars, vrs_id, calls, scriptVars>>

NextRetry == FetchStart \/ SessionGet \/ Backoff \/ FetchReturn

SpecRetry == InitRetry /\ [][NextRetry]_vars

(***************************************************************************)
(* The scripts around the loader: vcf2measurement.py,                      *)
(* expression2measurement.py and insert_table.py.  The reshaping itself is *)
(* the subject of Spec and SpecVcf; here it is a step that raises or       *)
(* returns a measurement table of k rows and a fact_relationship table of  *)
(* 2k rows.  Every step that reads or writes a file or talks to the        *)
(* database can fail.  An exception ends main in its except clause.        *)
(***************************************************************************)
Scripts == {"vcf2measurement", "expression2measurement", "insert_table"}
Tables == {"measurement", "fact_relationship"}
PersonColumns == {"person_id", "person_source_value"}
ObservationColumns == {"observation_id", "person_id", "observation_date"}

inputVars == <<script, dbwrite, person_cols, person_match, obs_cols, fieldVars>>

reshapeVars == <<expr_df, samples, person_map, specimen_df, start_index,
                 gene_map, zscores, vcf, genomic_df, id_map, long_df>>

\* get_person_id: the exception it raises ("" when it returns)
get_person_id(cols, match) ==
    IF "person_id" \notin cols
    THEN IF "person_source_value" \notin cols THEN "ValueError"
         ELSE IF match = "none" THEN "ValueError"
         ELSE IF match = "some" THEN "ValueError"
         ELSE ""
    ELSE IF ~(PersonColumns \subseteq cols) THEN "ValueError"
    ELSE ""

\* get_observation_to_measurement_dict: the exception it raises
ObservationUnchecked(cols) == ""

get_observation_to_measurement_dict(cols) ==
    IF ~(ObservationColumns \subseteq cols) THEN "ValueError" ELSE ""

\* the rows a table of n rows holds
RowsOf(n) == [i \in 1..n |-> i]

\* the dataframe insert_table is called with
TableRows(t) == IF t = "measurement" THEN measurement_df ELSE fact_relationship

\* where the script goes on after insert_table returns
AfterInsert(t) ==
    IF script = "insert_table" THEN "s_close"
    ELSE IF t = "measurement" THEN "s_insert_fact"
    ELSE "s_close"

\* insert_table catches the exception of a failed insert and returns
PropagateFailure(t) == "exit"

AfterFailedInsert(t) == AfterInsert(t)

\* leaving "with session.begin()" by an exception rolls the transaction back
session_keep_partial == [db EXCEPT ![inserting] = @ \o Val(session)]

session_rollback == db

ScriptInit ==
    \E sc \in Scripts, w \in BOOLEAN, pcols \in SUBSET PersonColumns,
       m \in {"all", "some", "none"}, ocols \in SUBSET ObservationColumns :
        /\ sc = "insert_table" =>
              /\ w /\ pcols = PersonColumns /\ m = "all"
              /\ ocols = ObservationColumns
        /\ pc = "s_loader"
        /\ err = ""
        /\ script = sc
        /\ dbwrite = w
        /\ person_cols = pcols
        /\ person_match = m
        /\ obs_cols = ocols
        /\ connection = "none"
        /\ files = {}
        /\ db = [t \in Tables |-> <<0>>]
        /\ session = Null
        /\ attempts = [t \in Tables |-> 0]
        /\ inserting = ""
        /\ args = <<>> /\ person_df = <<>> /\ specimen = <<>>
        /\ ConvIdle /\ AnnIdle /\ RetryIdle

\* main's "except Exception": the error is printed, main returns
Raise(e) == err' = e /\ pc' = "exit"

\* loader = OMOP_ODmapper(db_config): the engine connects, or raises
OpenLoader ==
    /\ pc = "s_loader"
    /\ \/ /\ connection' = "open"
          /\ pc' = IF script = "insert_table" THEN "s_infile" ELSE "s_person"
          /\ err' = err
       \/ /\ Raise("OperationalError")
          /\ connection' = connection
    /\ UNCHANGED <<convVars, annVars, retryVars, inputVars, files, db,
                   session, attempts, inserting>>

\* person = pd.read_csv(...); person_df = loader.get_person_id(person)
LoadPerson ==
    /\ pc = "s_person"
    /\ \/ Raise("FileNotFoundError")
       \/ /\ get_person_id(person_cols, person_match) # ""
          /\ Raise(get_person_id(person_cols, person_match))
       \/ /\ get_person_id(person_cols, person_match) = ""
          /\ pc' = "s_infile"
          /\ err' = err
    /\ UNCHANGED <<convVars, annVars, retryVars, scriptVars>>

\* the input of the script is read; expression2measurement leaves with
\* sys.exit(1) when the second column is not concept_id; insert_table.py
\* reads the table it inserts
LoadInput ==
    /\ pc = "s_infile"
    /\ \/ /\ Raise("FileNotFoundError")
          /\ UNCHANGED measurement_df
       \/ /\ script = "expression2measurement"
          /\ Raise("SystemExit")
          /\ UNCHANGED measurement_df
       \/ /\ script # "insert_table"
          /\ pc' = "s_obs"
          /\ err' = err
          /\ UNCHANGED measurement_df
       \/ /\ script = "insert_table"
          /\ \E k \in 0..MaxInsertRows : measurement_df' = RowsOf(k)
          /\ pc' = "s_insert_measurement"
          /\ err' = err
    /\ UNCHANGED <<reshapeVars, fact_relationship, annVars, retryVars,
                   scriptVars>>

\* observation_df = pd.read_csv(...);
\* obs_map = loader.get_observation_to_measurement_dict(observation_df)
LoadObservation ==
    /\ pc = "s_obs"
    /\ \/ Raise("FileNotFoundError")
       \/ /\ get_observation_to_measurement_dict(obs_cols) # ""
          /\ Raise(get_observation_to_measurement_dict(obs_cols))
       \/ /\ get_observation_to_measurement_dict(obs_cols) = ""
          /\ pc' = "s_specimen"
          /\ err' = err
    /\ UNCHANGED <<convVars, annVars, retryVars, scriptVars>>

\* specimen_df = pd.read_csv(args.specimenfile, ...)
LoadSpecimen ==
    /\ pc = "s_specimen"
    /\ \/ Raise("FileNotFoundError")
       \/ pc' = "s_reshape" /\ err' = err
    /\ UNCHANGED <<convVars, annVars, retryVars, scriptVars>>

\* (measurement_df, fact_relationship) = loader.generate_..._dataframe(...)
Reshape ==
    /\ pc = "s_reshape"
    /\ \/ /\ Raise("ValueError")
          /\ UNCHANGED <<measurement_df, fact_relationship>>
       \/ /\ \E k \in 0..MaxInsertRows :
                /\ measurement_df' = RowsOf(k)
                /\ fact_relationship' = RowsOf(2 * k)
          /\ pc' = "s_out"
          /\ err' = err
    /\ UNCHANGED <<reshapeVars, annVars, retryVars, scriptVars>>

\* measurement_df.to_csv(args.outfile, index=False)
WriteMeasurement ==
    /\ pc = "s_out"
    /\ \/ Raise("OSError") /\ files' = files
       \/ /\ files' = files \cup {"outfile"}
          /\ pc' = "s_outfact"
          /\ err' = err
    /\ UNCHANGED <<convVars, annVars, retryVars, inputVars, connection, db,
                   session, attempts, inserting>>

\* fact_relationship.to_csv(args.outfact, index=False); if args.dbwrite
WriteFact ==
    /\ pc = "s_outfact"
    /\ \/ Raise("OSError") /\ files' = files
       \/ /\ files' = files \cup {"outfact"}
          /\ pc' = IF dbwrite THEN "s_insert_measurement" ELSE "s_close"
          /\ err' = err
    /\ UNCHANGED <<convVars, annVars, retryVars, inputVars, connection, db,
                   session, attempts, inserting>>

\* the table of the insert_table call the script is about to make
CalledTable == IF pc = "s_insert_measurement" THEN "measurement"
               ELSE "fact_relationship"

\* loader.insert_table(df, table): the statement is built and a session
\* begins a transaction
InsertTable ==
    /\ pc \in {"s_insert_measurement", "s_insert_fact"}
    /\ inserting' = CalledTable
    /\ attempts' = [attempts EXCEPT ![CalledTable] = @ + 1]
    /\ session' = Some(<<>>)
    /\ pc' = "ins_execute"
    /\ UNCHANGED <<err, convVars, annVars, retryVars, inputVars, connection,
                   files, db>>

\* session.execute(insert_stmt, records): the next row is inserted in the
\* open transaction
ExecuteRow ==
    /\ pc = "ins_execute"
    /\ Len(Val(session)) < Len(TableRows(inserting))
    /\ session' = Some(Append(Val(session),
                              TableRows(inserting)[Len(Val(session)) + 1]))
    /\ UNCHANGED <<pc, err, convVars, annVars, retryVars, inputVars,
                   connection, files, db, attempts, inserting>>

\* a row violates a constraint or the connection is lost: the exception
\* leaves the transaction, which is rolled back, and is caught and printed
ExecuteFail ==
    /\ pc = "ins_execute"
    /\ db' = session_rollback
    /\ session' = Null
    /\ pc' = AfterFailedInsert(inserting)
    /\ inserting' = ""
    /\ UNCHANGED <<err, convVars, annVars, retryVars, inputVars, connection,
                   files, attempts>>

\* every row was executed: leaving "with session.begin()" commits
Commit ==
    /\ pc = "ins_execute"
    /\ Len(Val(session)) = Len(TableRows(inserting))
    /\ db' = [db EXCEPT ![inserting] = @ \o Val(session)]
    /\ session' = Null
    /\ pc' = AfterInsert(inserting)
    /\ inserting' = ""
    /\ UNCHANGED <<err, convVars, annVars, retryVars, inputVars, connection,
                   files, attempts>>

\* loader.close()
Close ==
    /\ pc = "s_close"
    /\ connection' = "closed"
    /\ pc' = "exit"
    /\ UNCHANGED <<err, convVars, annVars, retryVars, inputVars, files, db,
                   session, attempts, inserting>>

NextScript ==
    \/ OpenLoader \/ LoadPerson \/ LoadInput \/ LoadObservation
    \/ LoadSpecimen \/ Reshape \/ WriteMeasurement \/ WriteFact
    \/ InsertTable \/ ExecuteRow \/ ExecuteFail \/ Commit \/ Close

SpecScript == ScriptInit /\ [][NextScript]_vars

(***************************************************************************)
(* The fields a command-line parameter can override: the if-blocks of      *)
(* expression2measurement.py, vcf2measurement.py and create-specimen.py    *)
(* between the person file and the table.  The person frame is             *)
(* [columns, rows]; a row maps each column to a cell, Null for an empty    *)
(* one.  The run has its loader, valid inputs and no --dbwrite; the        *)
(* reshaping is the subject of Spec and SpecVcf and gives here one         *)
(* measurement row per person of the person file.                          *)
(***************************************************************************)
MeasurementScripts == {"expression2measurement", "vcf2measurement"}

\* the names bound in a script: its own imports and the public names of
\* converter_modules.omop_loader, which "import *" copies
ImportedNames ==
    {"psycopg2", "pd", "argparse", "sys", "os", "traceback", "datetime",
     "Union", "load_dotenv"}
    \cup {"np", "requests", "gzip", "create_engine", "text", "Session", "tqdm",
          "OMOP_ODmapper", "ODArgumentParser"}

\* warnings.warn(...): the exception the call raises ("" when it returns)
warnings_warn == IF "warnings" \in ImportedNames THEN "" ELSE "NameError"

\* the parameters main tests, in the order of its if-blocks
OverridableFields(sc) ==
    IF sc = "expression2measurement"
    THEN <<"unit_concept_id", "unit_source_value",
           "meas_event_field_concept_id", "measurement_type_concept_id">>
    ELSE IF sc = "vcf2measurement"
    THEN <<"meas_event_field_concept_id", "measurement_type_concept_id">>
    ELSE <<"specimen_concept_id", "specimen_type_concept_id">>

\* the parameters of a script that the model follows
Parameters(sc) ==
    Range(OverridableFields(sc))
    \cup (IF sc = "create-specimen" THEN {"prefix"} ELSE {})

\* the person-derived columns both reshapers copy to the measurement rows
PersonFields ==
    {"unit_concept_id", "unit_source_value", "meas_event_field_concept_id",
     "measurement_type_concept_id"}

\* the columns a person file may have besides person_id and
\* person_source_value
OptionalColumns(sc) ==
    IF sc = "create-specimen"
    THEN {"specimen_id", "specimen_concept_id", "specimen_type_concept_id"}
    ELSE PersonFields

\* the value main assigns when neither parameter nor column gives one
DefaultOf(f) ==
    IF f = "unit_concept_id" THEN Some(37533750)
    ELSE IF f = "meas_event_field_concept_id" THEN Some(1147165)
    ELSE IF f = "measurement_type_concept_id" THEN Some(32856)
    ELSE Null

\* the value given on the command line, the cell of row j of a column
ParameterValue(f) == IF f = "prefix" THEN "P" ELSE 7
ColumnValue(f, j) == IF f = "specimen_id" THEN 60 + j ELSE 50 + j

\* the person file: N persons, the two key columns, the optional columns
\* extra; with blanks the optional cells of the last row are empty
PersonFrame(N, extra, blanks) ==
    [columns |-> PersonColumns \cup extra,
     rows |-> [j \in 1..N |-> [c \in PersonColumns \cup extra |->
        IF c = "person_id" THEN Some(PersonIdOf(j))
        ELSE IF c = "person_source_value" THEN Some(SampleNames[j])
        ELSE IF blanks /\ j = N THEN Null
        ELSE Some(ColumnValue(c, j))]]]

\* df[f] = v
SetColumn(df, f, v) ==
    [columns |-> df.columns \cup {f},
     rows |-> [j \in DOMAIN df.rows |-> [c \in df.columns \cup {f} |->
                  IF c = f THEN v ELSE df.rows[j][c]]]]

\* one if-block of main: the parameter when given (with a warning when the
\* column exists too), else the column, else the default
OverrideField(st, f, arg) ==
    IF st.err # "" THEN st
    ELSE IF ~IsNull(arg)
    THEN IF f \in st.df.columns /\ warnings_warn # ""
         THEN [err |-> warnings_warn, df |-> st.df]
         ELSE [err |-> "", df |-> SetColumn(st.df, f, arg)]
    ELSE IF f \notin st.df.columns
    THEN [err |-> "", df |-> SetColumn(st.df, f, DefaultOf(f))]
    ELSE st

\* the if-blocks one after the other
RECURSIVE OverrideAll(_, _, _)
OverrideAll(st, fields, given) ==
    IF fields = <<>> THEN st
    ELSE OverrideAll(OverrideField(st, Head(fields), given[Head(fields)]),
                     Tail(fields), given)

\* person_df.set_index('person_source_value').to_dict(orient='index')
PersonMapOfFrame(df) ==
    [s \in {Val(df.rows[j].person_source_value) : j \in DOMAIN df.rows} |->
        [c \in df.columns \ {"person_source_value"} |->
            df.rows[CHOOSE j \in DOMAIN df.rows :
                        Val(df.rows[j].person_source_value) = s][c]]]

\* person_map.get(psv, {}).get(col)
PersonGet(pmap, psv, col) ==
    IF psv \in DOMAIN pmap /\ col \in DOMAIN pmap[psv] THEN pmap[psv][col]
    ELSE Null

\* the person-derived columns of the measurement row of one sample
FieldRow(psv, pmap) ==
    [c \in {"person_source_value", "person_id"} \cup PersonFields |->
        IF c = "person_source_value" THEN Some(psv)
        ELSE PersonGet(pmap, psv, c)]

FieldsInit(maxPersons) ==
    \E sc \in MeasurementScripts \cup {"create-specimen"},
       N \in 1..maxPersons, blanks \in BOOLEAN :
    \E extra \in SUBSET OptionalColumns(sc), given \in SUBSET Parameters(sc) :
        /\ blanks => extra # {}
        /\ pc = IF sc = "create-specimen" THEN "sp_warn" ELSE "f_override"
        /\ err = ""
        /\ script = sc
        /\ args = [f \in Parameters(sc) |->
                      IF f \in given THEN Some(ParameterValue(f)) ELSE Null]
        /\ person_df = PersonFrame(N, extra, blanks)
        /\ specimen = <<>>
        /\ samples = SubSeq(SampleNames, 1, N)
        /\ dbwrite = FALSE
        /\ person_cols = PersonColumns \cup extra
        /\ person_match = "all"
        /\ obs_cols = ObservationColumns
        /\ connection = "open"
        /\ files = {}
        /\ db = [t \in Tables |-> <<0>>]
        /\ session = Null
        /\ attempts = [t \in Tables |-> 0]
        /\ inserting = ""
        /\ expr_df = <<>> /\ person_map = <<>> /\ specimen_df = <<>>
        /\ start_index = Null /\ gene_map = <<>> /\ zscores = <<>>
        /\ vcf = <<>> /\ genomic_df = <<>> /\ id_map = <<>> /\ long_df = <<>>
        /\ measurement_df = <<>> /\ fact_relationship = <<>>
        /\ AnnIdle /\ RetryIdle

\* the if-blocks have run: the exception ends main, else person_map is built
Overridden(out) ==
    /\ err' = out.err
    /\ person_df' = out.df
    /\ person_map' = IF out.err = "" THEN PersonMapOfFrame(out.df) ELSE person_map
    /\ pc' = IF out.err = "" THEN "f_reshape" ELSE "exit"

\* "prioritize the value in the parameters" and person_map
OverrideFields ==
    /\ pc = "f_override"
    /\ Overridden(OverrideAll([err |-> "", df |-> person_df],
                              OverridableFields(script), args))
    /\ UNCHANGED <<expr_df, samples, specimen_df, start_index, gene_map,
                   zscores, vcf, genomic_df, id_map, long_df, measurement_df,
                   fact_relationship>>
    /\ UNCHANGED <<annVars, retryVars, script, dbwrite, person_cols,
                   person_match, obs_cols, connection, files, db, session,
                   attempts, inserting, args, specimen>>

\* the reshaper copies the person-derived columns from person_map
FieldsReshape ==
    /\ pc = "f_reshape"
    /\ measurement_df' = [j \in DOMAIN samples |-> FieldRow(samples[j], person_map)]
    /\ pc' = "s_out"
    /\ UNCHANGED <<err, reshapeVars, fact_relationship, annVars, retryVars,
                   scriptVars>>

\* create-specimen.py: the two warnings before the table is generated
SpecimenWarn ==
    /\ pc = "sp_warn"
    /\ IF /\ warnings_warn # ""
          /\ \E f \in Range(OverridableFields(script)) :
                ~IsNull(args[f]) /\ f \in person_df.columns
       THEN Raise(warnings_warn)
       ELSE pc' = "sp_generate" /\ err' = err
    /\ UNCHANGED <<convVars, annVars, retryVars, scriptVars>>

\* "specimen_id" not in df.columns: df['specimen_id'] = range(...)
WithSpecimenId(df, start) ==
    IF "specimen_id" \in df.columns THEN df
    ELSE [columns |-> df.columns \cup {"specimen_id"},
          rows |-> [j \in DOMAIN df.rows |->
             [c \in df.columns \cup {"specimen_id"} |->
                IF c = "specimen_id"
                THEN Some((IF IsNull(start) THEN 1 ELSE Val(start)) + j - 1)
                ELSE df.rows[j][c]]]]

\* the default argument if given, else the cell if the column exists and
\* the cell is not empty, else the built-in value
SpecimenField(row, f, default, builtin) ==
    IF ~IsNull(default) THEN default
    ELSE IF f \in DOMAIN row /\ ~IsNull(row[f]) THEN row[f]
    ELSE Some(builtin)

SpecimenRecord(row, default_specimen_concept_id, default_specimen_type_concept_id) ==
    [specimen_id |-> row.specimen_id,
     person_id |-> row.person_id,
     specimen_concept_id |->
        SpecimenField(row, "specimen_concept_id",
                      default_specimen_concept_id, 4047495),
     specimen_type_concept_id |->
        SpecimenField(row, "specimen_type_concept_id",
                      default_specimen_type_concept_id, 32856)]

\* one record per row of df, in row order
generate_specimen_dataframe(df, default_specimen_concept_id, default_specimen_type_concept_id, start) ==
    [j \in DOMAIN df.rows |->
        SpecimenRecord(WithSpecimenId(df, start).rows[j],
                       default_specimen_concept_id,
                       default_specimen_type_concept_id)]

\* the parameters generate_specimen_dataframe declares, and the keywords
\* create-specimen.py calls it with
SpecimenParameters ==
    {"df", "default_specimen_concept_id", "default_specimen_type_concept_id",
     "start_index"}
SpecimenKeywords ==
    {"default_specimen_concept_id", "default_specimen_type_concept_id",
     "prefix"}

\* specimen = loader.generate_specimen_dataframe(samples_mapping, ...);
\* specimen.to_csv(args.outfile, index=False).  A keyword that is not a
\* parameter of the function makes the call raise TypeError.
CreateSpecimen ==
    /\ pc = "sp_generate"
    /\ IF ~(SpecimenKeywords \subseteq SpecimenParameters)
       THEN /\ Raise("TypeError")
            /\ UNCHANGED <<specimen, person_df, files>>
       ELSE /\ specimen' = generate_specimen_dataframe(
                               person_df, args.specimen_concept_id,
                               args.specimen_type_concept_id, Null)
            /\ person_df' = WithSpecimenId(person_df, Null)
            /\ files' = files \cup {"outfile"}
            /\ pc' = "s_close"
            /\ err' = err
    /\ UNCHANGED <<convVars, annVars, retryVars, script, dbwrite, person_cols,
                   person_match, obs_cols, connection, db, session, attempts,
                   inserting, args>>

InitFields == FieldsInit(MaxPersons)

NextFields ==
    \/ OverrideFields \/ FieldsReshape \/ WriteMeasurement \/ WriteFact
    \/ SpecimenWarn \/ CreateSpecimen \/ Close

SpecFields == InitFields /\ [][NextFields]_vars

(***************************************************************************)
(* Helpers of the properties.                                              *)
(***************************************************************************)
Melted == pc \in {"gex_filter", "gex_fact", "done"}

GenomicMelted == pc \in {"vcf_filter", "vcf_fact", "done"}

\* the spellings of a missing genotype, with either separator
MissingEncodings ==
    {<<"-", "1">>, <<".">>, <<".", "/", ".">>, <<".", "|", ".">>}

\* every genotype of the file is a missing one or decodes to alleles of
\* its record
GenotypesDecodable ==
    \A r \in DOMAIN vcf : \A j \in DOMAIN vcf[r].gts :
        \/ vcf[r].gts[j] \in MissingEncodings
        \/ ~JoinRaises(ConvertGenotype(vcf[r].gts[j],
                          <<vcf[r].ref>> \o Split(vcf[r].alt, ",")))

SampleIndex(psv) == CHOOSE j \in DOMAIN samples : samples[j] = psv

HasSpecimen(pid) == \E i \in DOMAIN specimen_df : specimen_df[i].person_id = pid

\* a fact_relationship row that refers to measurement id m
RefersToMeasurement(f, m) ==
    \/ f.domain_concept_id_1 = MeasurementDomain /\ f.fact_id_1 = m
    \/ f.domain_concept_id_2 = MeasurementDomain /\ f.fact_id_2 = m

ConstantRow(v) == \A j \in DOMAIN v : v[j] = v[1]

ConstantGene(g) ==
    \A i \in DOMAIN expr_df : expr_df[i].gene = g => ConstantRow(expr_df[i].vals)

(***************************************************************************)
(* C1. Every row of the returned measurement table has a resolved          *)
(* measurement_concept_id (not null, not the unmapped sentinel '-', not    *)
(* empty) and belongs to a person that has a specimen record.              *)
(* Stated as claimed, for the genomic conversion; a data line without an   *)
(* OMOP_Concept_IDs annotation yields a REF row whose concept id is ''.    *)
(***************************************************************************)
C1_OnlyResolvedRowsSurvive ==
    pc = "done" =>
        \A i \in DOMAIN measurement_df :
            LET c == measurement_df[i].measurement_concept_id
                p == measurement_df[i].person_id
            IN /\ ~IsNull(c)
               /\ Val(c) # <<"-">>
               /\ Val(c) # <<>>
               /\ ~IsNull(p)
               /\ HasSpecimen(Val(p))

(***************************************************************************)
(* C2. For every run, the fact_relationship table holds, for each row of   *)
(* the measurement table, exactly two rows referring to its measurement_id *)
(* (measurement -> specimen with 32668, specimen -> measurement with       *)
(* 32669), and nothing else: it is twice as long as the measurement table. *)
(* Stated as claimed; the run without --start gives every row the id None. *)
(***************************************************************************)
C2_TwoFactRowsPerMeasurement ==
    pc = "done" =>
        /\ Len(fact_relationship) = 2 * Len(measurement_df)
        /\ \A i \in DOMAIN measurement_df :
              LET m == measurement_df[i].measurement_id
                  s == long_df[i].specimen_id
                  refs == {k \in DOMAIN fact_relationship :
                              RefersToMeasurement(fact_relationship[k], m)}
              IN /\ ~IsNull(m)
                 /\ Cardinality(refs) = 2
                 /\ \E k \in refs : fact_relationship[k] =
                        [domain_concept_id_1 |-> 1147330, fact_id_1 |-> m,
                         domain_concept_id_2 |-> 1147306, fact_id_2 |-> s,
                         relationship_concept_id |-> 32668]
                 /\ \E k \in refs : fact_relationship[k] =
                        [domain_concept_id_1 |-> 1147306, fact_id_1 |-> s,
                         domain_concept_id_2 |-> 1147330, fact_id_2 |-> m,
                         relationship_concept_id |-> 32669]
        /\ \A k \in DOMAIN fact_relationship :
              \E i \in DOMAIN measurement_df :
                  RefersToMeasurement(fact_relationship[k],
                                      measurement_df[i].measurement_id)

(***************************************************************************)
(* C3. With a start offset s and k surviving rows, the measurement_id      *)
(* values of the returned table are s, s+1, ..., s+k-1 in row order.       *)
(* Stated as claimed; the code numbers the rows before the specimen filter.*)
(***************************************************************************)
C3_IdsCompactAfterBothFilters ==
    (pc = "done" /\ ~IsNull(start_index)) =>
        \A i \in DOMAIN measurement_df :
            measurement_df[i].measurement_id = Some(Val(start_index) + i - 1)

(***************************************************************************)
(* C4. Without a start offset the numbering starts at 1: the first         *)
(* surviving row has measurement_id 1 and every surviving row has a        *)
(* non-null measurement_id. Stated as claimed; the code assigns None.      *)
(***************************************************************************)
C4_DefaultStartIsOne ==
    (pc = "done" /\ IsNull(start_index)) =>
        /\ \A i \in DOMAIN measurement_df :
              ~IsNull(measurement_df[i].measurement_id)
        /\ measurement_df # <<>> => measurement_df[1].measurement_id = Some(1)

(***************************************************************************)
(* C5. Every missing genotype encoding (-1, ., ./. and .|.) yields the     *)
(* call Missing, whatever separator the genotype or the rest of the file   *)
(* uses. Stated as claimed; '.|.' is split into two '.' indices, both      *)
(* decode to None and joining them raises TypeError.                       *)
(***************************************************************************)
C5_MissingEncodingsGiveMissing ==
    (pc # "vcf_normalize" /\ GenotypesDecodable) =>
        /\ err # "TypeError"
        /\ \A i \in DOMAIN genomic_df :
              \A j \in DOMAIN genomic_df[i].calls :
                  vcf[genomic_df[i].line].gts[j] \in MissingEncodings
                      => genomic_df[i].calls[j] = <<"Missing">>

(***************************************************************************)
(* C6. Each normalizer call is mapped by its status: positive gives        *)
(* value_as_number 1 and value_as_concept_id 9191, negative 0 and 9189,    *)
(* both with the allele pair as value_source_value; Missing gives -1, a    *)
(* null concept id and the value_source_value './.'.                       *)
(* Stated as claimed; the split of 'Missing' leaves the status column      *)
(* empty, so neither -1 nor './.' is ever assigned.                        *)
(***************************************************************************)
C6_StatusMapping ==
    GenomicMelted =>
        \A i \in DOMAIN long_df :
            LET call == long_df[i].genomic_value
                last == call[Len(call)]
                r == long_df[i]
            IN /\ last = "positive" =>
                    /\ r.value_as_number = Some(1)
                    /\ r.value_as_concept_id = Some(9191)
                    /\ r.value_source_value = Some(SubSeq(call, 1, Len(call) - 2))
               /\ last = "negative" =>
                    /\ r.value_as_number = Some(0)
                    /\ r.value_as_concept_id = Some(9189)
                    /\ r.value_source_value = Some(SubSeq(call, 1, Len(call) - 2))
               /\ call = <<"Missing">> =>
                    /\ r.value_as_number = Some(-1)
                    /\ IsNull(r.value_as_concept_id)
                    /\ r.value_source_value = Some(<<".", "/", ".">>)

(***************************************************************************)
(* C7. Classification is strict on the z-score: z > 1 gives 4084765,       *)
(* z < -1 gives 4083207, every other defined z, z = 1 and z = -1 included, *)
(* gives 4084764.                                                          *)
(***************************************************************************)
C7_StrictClassification ==
    Melted =>
        \A i \in DOMAIN long_df :
            ~IsNull(long_df[i].zscore) =>
                LET z == Val(long_df[i].zscore)
                    c == long_df[i].value_as_concept_id
                IN /\ (z.sgn = 1 /\ z.num > z.den) => c = Some(4084765)
                   /\ (z.sgn = -1 /\ z.num > z.den) => c = Some(4083207)
                   /\ (z.num <= z.den) => c = Some(4084764)

\* a row whose z-score is exactly +1 or -1 has been classified
C7_Witness ==
    /\ pc = "done"
    /\ \E i \in DOMAIN long_df :
          /\ ~IsNull(long_df[i].zscore)
          /\ Val(long_df[i].zscore).num = Val(long_df[i].zscore).den
          /\ long_df[i].value_as_concept_id = Some(4084764)

C9_ZeroStdRowsKept ==
    \A g \in Genes :
        ((\E r \in DOMAIN expr_df : expr_df[r].gene = g) /\ ConstantGene(g)) =>
            /\ Melted =>
                 \A i \in DOMAIN long_df :
                     long_df[i].gene = g =>
                         /\ IsNull(long_df[i].zscore)
                         /\ IsNull(long_df[i].value_as_concept_id)
            /\ pc = "gex_filter" =>
                 \A j \in DOMAIN samples :
                     \E i \in DOMAIN long_df :
                         /\ long_df[i].gene = g
                         /\ long_df[i].person_source_value = samples[j]
            /\ pc = "done" =>
                 \A j \in DOMAIN samples :
                     (\E i \in DOMAIN measurement_df :
                         /\ measurement_df[i].measurement_source_value = g
                         /\ measurement_df[i].person_id = Some(PersonIdOf(j))
                         /\ IsNull(measurement_df[i].value_as_concept_id))
                     <=> (/\ \E r \in DOMAIN expr_df :
                                /\ expr_df[r].gene = g
                                /\ ~IsNull(expr_df[r].concept_id)
                          /\ samples[j] \in DOMAIN person_map
                          /\ HasSpecimen(PersonIdOf(j)))

\* a gene with the same value in two or more samples reached the returned
\* table, unclassified
C9_Witness ==
    /\ pc = "done"
    /\ Len(samples) >= 2
    /\ \E i \in DOMAIN measurement_df :
          /\ ConstantGene(measurement_df[i].measurement_source_value)
          /\ IsNull(measurement_df[i].value_as_concept_id)

(***************************************************************************)
(* C10. Reshaping N identifier rows and M sample columns yields exactly    *)
(* N*M long rows before any filter, also when an identifier occurs in more *)
(* than one input row. Stated as claimed; the merge of the expression and  *)
(* z-score tables pairs the rows of a repeated gene with each other.       *)
(***************************************************************************)
C10_MeltYieldsNTimesM ==
    pc = "gex_filter" => Len(long_df) = Len(expr_df) * Len(samples)


(***************************************************************************)
(* Helpers of the annotator properties.                                    *)
(***************************************************************************)
\* the lookup outcome "200 with concept_id"
FoundByApi(k) ==
    /\ ~api[k].error
    /\ api[k].status = 200
    /\ api[k].json = "object"
    /\ ~IsNull(api[k].concept_id)

\* the mapping the claims expect of map_gene_concept_ids
ExpectedGeneMap ==
    [k \in Range(gene_list) |->
        IF FoundByApi(k) THEN api[k].concept_id ELSE Null]

\* the value the claims expect for one VRS id of a record
ExpectedConcept(v) ==
    IF v \in VrsIds /\ FoundByApi(v)
    THEN Found(Val(api[v].concept_id)) ELSE Sentinel

\* the mapping of record i is complete and as expected
RecordMapped(i) ==
    /\ ~results[i].raised
    /\ DOMAIN results[i].values = DOMAIN ann_records[i]
    /\ \A j \in DOMAIN ann_records[i] :
          results[i].values[j] = ExpectedConcept(ann_records[i][j])

\* C11: whatever the outcome of each lookup (200 with concept_id, 200
\* without it, another status, an exception), the annotators do not raise
\* and return a mapping over exactly the input keys: the concept id for a
\* key the API answered with 200 and the field, the sentinel otherwise
\* (None in map_gene_concept_ids, "-" for the ids of a VCF record).
C11_EveryKeyMappedOrSentinel ==
    /\ err = ""
    /\ pc = "map_done" => gene_map = ExpectedGeneMap
    /\ pc \in {"ann_write", "ann_done"} =>
          \A i \in DOMAIN ann_records : RecordMapped(i)

\* every key of the input resolved to the sentinel: "-" for each allele of
\* each VCF record, an empty concept_id for each gene
VcfOutage ==
    /\ vcf # <<>>
    /\ \A r \in DOMAIN vcf :
          \A i \in DOMAIN parse_info(vcf[r].info) :
              parse_info(vcf[r].info)[i] = <<"-">>

GexOutage ==
    /\ expr_df # <<>>
    /\ \A i \in DOMAIN expr_df : IsNull(expr_df[i].concept_id)

\* C12: after a total outage of the mapping API (every key resolved to the
\* sentinel) the conversion does not abort: the normalizer and the
\* reshaping function complete and return a measurement table and a
\* fact_relationship table with zero rows.
C12_OutageGivesEmptyTables ==
    (VcfOutage \/ GexOutage) =>
        /\ pc # "error"
        /\ err = ""
        /\ pc = "done" => measurement_df = <<>> /\ fact_relationship = <<>>

\* C13: annotate writes the output records in the order of the input, for
\* every completion order of the concurrent tasks: the i-th record written
\* is the i-th record read, with the mapping computed for that record, and
\* nothing is written before every task has finished.
C13_OutputInInputOrder ==
    /\ \A i \in DOMAIN written :
          /\ written[i].idx = i
          /\ written[i] = WrittenRecord(i, process_record(ann_records[i]))
    /\ written # <<>> =>
          /\ Len(futures) = Len(ann_records)
          /\ TasksIn("finished") = DOMAIN ann_records
    /\ pc = "ann_done" /\ vcf_out => Len(written) = Len(ann_records)

\* three records written although the tasks were collected in another order
C13_Witness ==
    /\ pc = "ann_done"
    /\ Len(written) = 3
    /\ completed = <<3, 1, 2>>

\* C14: running the concept annotation again on the same input, against an
\* API that gives the same response for each key, returns the same key to
\* concept id mapping as the first run, whatever the interleaving and the
\* completion order of the lookups of either run, also when a key occurs
\* more than once in the input.
C14_RerunGivesSameMapping ==
    (run = 2 /\ pc = "map_done") => gene_map = first_map

\* a second run over an input with a repeated key, collected in reverse
\* order, that mapped one key and not the other
C14_Witness ==
    /\ run = 2
    /\ pc = "map_done"
    /\ gene_list = <<"G1", "G2", "G1">>
    /\ completed = <<3, 2, 1>>
    /\ ~IsNull(gene_map["G1"])
    /\ IsNull(gene_map["G2"])

\* the attempt ended in a response of the 5xx class
ServerError(outcome) == ~outcome.error /\ outcome.status \in 500..599

\* C15: in the transport of the VCF annotator a lookup is retried, at most
\* the configured 5 times, only when the response is a 5xx server error; a
\* lookup that gets a 4xx status or a 200 with a malformed or field-less
\* body is issued exactly once; a lookup whose retries are used up resolves
\* to the sentinel "-".
C15_RetryOnlyOnServerError ==
    /\ \A i \in DOMAIN calls : i < Len(calls) => ServerError(calls[i])
    /\ Len(calls) <= 6
    /\ (calls # <<>> /\ ~calls[1].error /\ calls[1].status \in {200, 404}) =>
          Len(calls) = 1
    /\ (pc = "fetched" /\ Len(calls) = 6 /\ ~calls[6].error
           /\ calls[6].status # 200) => concept = Some(Sentinel)

\* the most tasks a batch of the explored inputs submits
MaxTasks == IF MaxKeys > MaxAnnRecords THEN MaxKeys ELSE MaxAnnRecords

\* the batch has produced its mapping or started to write its output
BatchOutput == pc \in {"map_done", "ann_write", "ann_done"}

\* every input key or record has a task that finished and was collected
AllTasksFinished ==
    /\ Len(futures) = Len(gene_list) + Len(ann_records)
    /\ TasksIn("finished") = DOMAIN futures
    /\ Range(completed) = DOMAIN futures

\* C16: a batch annotation always runs to completion.  If every HTTP call
\* returns or fails, the batch ends, every submitted key or record ends
\* resolved or failed (no task is cancelled or skipped because a sibling
\* failed), and the mapping or the output is produced only after all tasks
\* have finished.
C16_BatchRunsToCompletion ==
    /\ <>(pc \in {"map_done", "ann_done"})
    /\ \A i \in 1..MaxTasks :
          (i \in DOMAIN futures) ~>
              (i \in DOMAIN futures /\ futures[i].state = "finished")
    /\ [](BatchOutput => AllTasksFinished)

\* a finished batch in which the request of one key failed and the key of a
\* sibling task was resolved
C16_Witness ==
    /\ pc = "map_done"
    /\ \E k \in Range(gene_list) : api[k].error /\ IsNull(gene_map[k])
    /\ \E k \in Range(gene_list) : ~IsNull(gene_map[k])

(***************************************************************************)
(* Properties of the scripts and of insert_table.                          *)
(***************************************************************************)
\* the content of every table before the script ran
RowsBefore == <<0>>

\* C17: insert_table inserts a table as one transaction: after any call
\* either all rows of the given table have been inserted or none, and a
\* failure on any row (constraint violation, lost connection) leaves the
\* database table as it was before the call.
C17_InsertIsAllOrNothing ==
    \A t \in Tables :
        \/ db[t] = RowsBefore
        \/ /\ db[t] = RowsBefore \o TableRows(t)
           /\ attempts[t] = 1
           /\ inserting # t

\* the insert of a measurement table of two rows failed and the script has
\* moved on: the table is as it was
C17_Witness ==
    /\ pc = "s_insert_fact"
    /\ attempts["measurement"] = 1
    /\ Len(measurement_df) = 2
    /\ db["measurement"] = RowsBefore

\* C18: when an insert fails, insert_table does not propagate the error and
\* does not retry: the table is attempted exactly once, the script goes on
\* with its remaining steps, and loader.close() is called before the
\* script ends.
C18_FailedInsertRunsOn ==
    /\ \A t \in Tables : attempts[t] <= 1
    /\ (pc = "exit" /\ attempts["measurement"] = 1) =>
          /\ err = ""
          /\ connection = "closed"
          /\ script # "insert_table" => attempts["fact_relationship"] = 1

\* a conversion script has ended after the insert of its two-row
\* measurement table failed: the fact_relationship table was still
\* inserted and the connection is closed
C18_Witness ==
    /\ pc = "exit"
    /\ script = "vcf2measurement"
    /\ Len(measurement_df) = 2
    /\ attempts["measurement"] = 1
    /\ db["measurement"] = RowsBefore
    /\ db["fact_relationship"] = RowsBefore \o fact_relationship
    /\ connection = "closed"

\* C19: on every fatal error raised in a conversion script after the loader
\* has opened its database connection (validation failure, unreadable
\* input, reshaping exception) the connection is closed, by loader.close(),
\* before the process exits.
C19_ConnectionClosedOnError ==
    (pc = "exit" /\ err # "") => connection # "open"

\* the person input lacks person_source_value, or person_id has to be
\* looked up and a person has no match in the person table
PersonInvalid ==
    \/ "person_source_value" \notin person_cols
    \/ "person_id" \notin person_cols /\ person_match # "all"

\* the observation input lacks observation_id, person_id or observation_date
ObservationInvalid == ~(ObservationColumns \subseteq obs_cols)

CarriesField(row, f, j) ==
    IF ~IsNull(args[f]) THEN row[f] = args[f]
    ELSE IF f \in person_cols
    THEN \/ row[f] = Some(ColumnValue(f, j))
         \/ j = Len(samples) /\ row[f] = Null
    ELSE row[f] = DefaultOf(f)

\* C21: in expression2measurement and vcf2measurement, for each overridable
\* field, a run (whose output files can be written) produces its output and
\* every measurement row carries the parameter value when the parameter is
\* given, also when the person file has a column of that name; the person
\* file's column when it is not given; the default when neither exists.
C21_ParameterOverridesColumn ==
    (script \in MeasurementScripts /\ pc = "exit" /\ err # "OSError") =>
        /\ err = ""
        /\ files = {"outfile", "outfact"}
        /\ Len(measurement_df) = Len(samples)
        /\ \A j \in DOMAIN measurement_df :
              \A f \in Range(OverridableFields(script)) :
                 CarriesField(measurement_df[j], f, j)

\* C22: create-specimen, given a person file with person_id and
\* person_source_value, writes to --out a specimen table with one row per
\* input person, specimen_id 1, 2, ... when the input has no specimen_id
\* column, and specimen_concept_id 4047495 and specimen_type_concept_id
\* 32856 when neither parameter nor column supplies them.
C22_SpecimenTableWritten ==
    (script = "create-specimen" /\ pc = "exit") =>
        /\ err = ""
        /\ "outfile" \in files
        /\ Len(specimen) = Len(samples)
        /\ \A j \in DOMAIN specimen :
              /\ specimen[j].person_id = Some(PersonIdOf(j))
              /\ "specimen_id" \notin person_cols =>
                    specimen[j].specimen_id = Some(j)
              /\ (IsNull(args.specimen_concept_id)
                     /\ "specimen_concept_id" \notin person_cols) =>
                    specimen[j].specimen_concept_id = Some(4047495)
              /\ (IsNull(args.specimen_type_concept_id)
                     /\ "specimen_type_concept_id" \notin person_cols) =>
                    specimen[j].specimen_type_concept_id = Some(32856)

\* the concept ids the annotator wrote for the alleles of a record (Null
\* when the record has no OMOP_Concept_IDs annotation)
AnnotatedIds(rec) ==
    CHOOSE ids \in IdChoices(1 + Len(Split(rec.alt, ","))) :
        InfoOf(ids) = rec.info

\* REF followed by the ALT alleles
AllelesOf(rec) == <<rec.ref>> \o Split(rec.alt, ",")

\* the concept id of allele number n of the record resolves
Resolves(rec, n) ==
    /\ ~IsNull(AnnotatedIds(rec))
    /\ Val(AnnotatedIds(rec))[n] # <<"-">>

\* one row per allele whose concept id resolves, REF first
ResolvedRowsOf(rec, line) ==
    LET kept == SelectSeq([n \in DOMAIN AllelesOf(rec) |-> n],
                          LAMBDA n : Resolves(rec, n))
    IN [k \in DOMAIN kept |->
           [ID |-> rec.var_id \o <<"_">> \o AllelesOf(rec)[kept[k]],
            OMOP_Concept_ID |-> Val(AnnotatedIds(rec))[kept[k]],
            line |-> line]]

\* convert_vcf_to_row_col_format has returned its frame
NormalizerReturned == pc # "vcf_normalize" /\ err # "TypeError"

\* C23: for each VCF data record, convert_vcf_to_row_col_format emits a row
\* for an allele if and only if the allele's concept id resolves (it is in
\* OMOP_Concept_IDs and is not '-'): the REF row iff the REF id resolves,
\* one row per ALT allele whose id resolves, REF first, and no row for a
\* record without a resolved id, a record without an OMOP_Concept_IDs
\* annotation included.
C23_RowIffConceptResolves ==
    NormalizerReturned =>
        [i \in DOMAIN genomic_df |->
            [ID |-> genomic_df[i].ID,
             OMOP_Concept_ID |-> genomic_df[i].OMOP_Concept_ID,
             line |-> genomic_df[i].line]]
        = Flatten([r \in DOMAIN vcf |-> ResolvedRowsOf(vcf[r], r)])

\* a genotype of two allele indices of the record, written with / or |
Decodable(gt, rec) ==
    /\ Len(gt) = 3
    /\ gt[2] \in {"/", "|"}
    /\ \A k \in {1, 3} :
          /\ gt[k] \in Range(Digits)
          /\ DigitValue(gt[k]) < Len(AllelesOf(rec))

\* the allele a genotype position names
DecodedAllele(gt, k, rec) == AllelesOf(rec)[DigitValue(gt[k]) + 1]

\* the allele a row tests: the part of its ID after the last '_'
AlleleUnderTest(row) == Split(row.ID, "_")[Len(Split(row.ID, "_"))]

\* "{alleles joined by /}_{status}"
CallOf(gt, rec, allele) ==
    DecodedAllele(gt, 1, rec) \o <<"/">> \o DecodedAllele(gt, 3, rec) \o <<"_">>
    \o (IF allele \in {DecodedAllele(gt, 1, rec), DecodedAllele(gt, 3, rec)}
        THEN <<"positive">> ELSE <<"negative">>)

\* REF=A, ALT=G, genotypes 0/1 and 1/1, OMOP_Concept_IDs=100,200
ExampleRecord ==
    [var_id |-> <<"rs1">>, ref |-> <<"A">>, alt |-> <<"G">>,
     info |-> InfoOf(Some(<<<<"100">>, <<"200">>>>)),
     gts |-> <<<<"0", "/", "1">>, <<"1", "/", "1">>>>]

ExampleRows ==
    <<[ID |-> <<"rs1", "_", "A">>, OMOP_Concept_ID |-> <<"100">>, line |-> 1,
       calls |-> <<<<"A", "/", "G", "_", "positive">>,
                   <<"G", "/", "G", "_", "negative">>>>],
      [ID |-> <<"rs1", "_", "G">>, OMOP_Concept_ID |-> <<"200">>, line |-> 1,
       calls |-> <<<<"A", "/", "G", "_", "positive">>,
                   <<"G", "/", "G", "_", "positive">>>>]>>

PositionDecodes(gt, k, rec) ==
    gt[k] \in Range(Digits) /\ DigitValue(gt[k]) < Len(AllelesOf(rec))

\* a genotype of two positions of which exactly one does not decode
OnePositionUndecodable(gt, rec) ==
    /\ Len(gt) = 3
    /\ gt[2] \in {"/", "|"}
    /\ PositionDecodes(gt, 1, rec) # PositionDecodes(gt, 3, rec)

\* C25: when a genotype has an allele index that is out of range of
\* [REF] + ALT or not numeric at one position (0/5, ./1), the normalizer
\* still completes: the rows of the record are emitted, each with a call
\* for every sample.
C25_UndecodableIndexStillEmits ==
    (\E r \in DOMAIN vcf : \E j \in DOMAIN vcf[r].gts :
        OnePositionUndecodable(vcf[r].gts[j], vcf[r])) =>
        /\ err # "TypeError"
        /\ NormalizerReturned =>
              \A r \in DOMAIN vcf : \A n \in DOMAIN AllelesOf(vcf[r]) :
                 Resolves(vcf[r], n) =>
                    \E i \in DOMAIN genomic_df :
                       /\ genomic_df[i].line = r
                       /\ AlleleUnderTest(genomic_df[i]) = AllelesOf(vcf[r])[n]
                       /\ Len(genomic_df[i].calls) = Len(vcf[r].gts)

\* the call has the form "{alleles}_{status}"
AllelesAndStatus(call) ==
    /\ Len(Split(call, "_")) >= 2
    /\ Split(call, "_")[Len(Split(call, "_"))] \in {<<"positive">>, <<"negative">>}

\* everything before the last '_' of the call
AllelePrefix(call) ==
    Join(SubSeq(Split(call, "_"), 1, Len(Split(call, "_")) - 1), "_")

\* C26: generate_genomic_measurement_dataframe splits each
\* "{alleles}_{status}" call so that status is the last token and
\* value_source_value is everything before it, also when an allele
\* contains an underscore.
C26_StatusIsLastToken ==
    (pc \notin {"vcf_normalize", "vcf_main", "vcf_melt"}
        /\ \E i \in DOMAIN genomic_df : \E j \in DOMAIN genomic_df[i].calls :
              AllelesAndStatus(genomic_df[i].calls[j])) =>
        /\ err # "ValueError"
        /\ \A k \in DOMAIN long_df :
              AllelesAndStatus(long_df[k].genomic_value) =>
                 /\ long_df[k].status =
                       Some(Split(long_df[k].genomic_value, "_")
                               [Len(Split(long_df[k].genomic_value, "_"))])
                 /\ long_df[k].value_source_value =
                       Some(AllelePrefix(long_df[k].genomic_value))

\* C27: at every moment during map_gene_concept_ids at most 8
\* get_concept_id lookups are in flight, for any number of input keys.
C27_AtMostEightInFlight ==
    Cardinality(TasksIn("running")) <= 8

\* eight lookups are in flight while a ninth key waits for a worker
C27_Witness ==
    /\ Cardinality(TasksIn("running")) = 8
    /\ TasksIn("queued") # {}
    /\ Len(gene_list) > 8

\* C28: the annotated expression file written by exp-annotator lists the
\* genes in the input row order for every completion order of the
\* lookups: the i-th output row is the i-th input gene.
C28_OutputInInputRowOrder ==
    pc = "exp_done" =>
        /\ Len(written) = Len(gene_list)
        /\ \A i \in DOMAIN written : written[i].gene = gene_list[i]

\* the concept id the normalizer attached to the row of the given ID that
\* it emitted for the given data line
NormalizerConcept(id, line) ==
    (CHOOSE i \in DOMAIN genomic_df :
        genomic_df[i].ID = id /\ genomic_df[i].line = line)

\* C29: in vcf2measurement every measurement row's measurement_concept_id
\* is the concept id the normalizer attached to the variant-allele row the
\* measurement was melted from, also when several VCF records give the
\* same row identifier {ID}_{allele} (records whose ID column is '.').
C29_ConceptOfOwnRow ==
    /\ pc \in {"vcf_filter", "vcf_fact", "done"} =>
          \A k \in DOMAIN long_df :
             long_df[k].measurement_concept_id =
                Some(genomic_df[NormalizerConcept(long_df[k].ID, long_df[k].line)]
                        .OMOP_Concept_ID)
    /\ pc = "done" =>
          \A k \in DOMAIN measurement_df :
             measurement_df[k].measurement_concept_id =
                Some(genomic_df[NormalizerConcept(long_df[k].ID, long_df[k].line)]
                        .OMOP_Concept_ID)

\* C30: after a --dbwrite run of vcf2measurement or expression2measurement
\* the database holds fact_relationship rows of the run only if the
\* measurement rows they refer to were inserted: the fact_relationship
\* insert is never committed after the measurement insert of the run has
\* failed.
C30_FactOnlyWithMeasurement ==
    (script \in {"vcf2measurement", "expression2measurement"}
        /\ db.fact_relationship # RowsBefore) =>
        db.measurement = RowsBefore \o measurement_df
====
